---- MODULE Spec2Model ----
(***************************************************************************)
(* webfront: a host-based HTTP router with a hot-reloadable rule table.    *)
(*                                                                         *)
(* The repository holds several revisions of the same program.  The       *)
(* current revision is src/unnamed/part_002 (NewServer, ServeHTTP,        *)
(* handler, refreshRules, loadRules, hostPolicy, parseRules, makeHandler); *)
(* the older revisions are src/main.go, src/unnamed/part_000, part_001,    *)
(* part_003, part_004 and part_005.                                        *)
(*                                                                         *)
(* Strings that the code inspects character by character (host names) are  *)
(* sequences of one-character strings; strings that are only compared with *)
(* "" (Forward, Serve) are TLA+ strings.                                   *)
(***************************************************************************)
EXTENDS Integers, Sequences, FiniteSets, TLC

\* ------------------------------------------------------------------ bounds
\* longest request Host header drawn in the routing specification
MaxHostLen == 4
\* most rules of a table drawn in the routing specification
MaxRules == 2
\* largest file modification time (0 is the zero time.Time)
MaxTime == 2
\* most rule tables the loader allocates in one behaviour
MaxLoads == 2
\* longest host name drawn for hostPolicy
MaxNameLen == 5

\* ----------------------------------------------------------------- strings
LetterChars == {"a", "b"}
DOT == "."
COLON == ":"
HostChars == LetterChars \cup {DOT}
HeaderChars == HostChars \cup {COLON}

RECURSIVE SeqsUpTo(_, _)
SeqsUpTo(S, n) ==
    IF n = 0 THEN {<<>>}
    ELSE LET shorter == SeqsUpTo(S, n - 1)
         IN  shorter \cup {Append(s, c) : s \in shorter, c \in S}

\* strings.HasSuffix(s, suffix)
HasSuffix(s, suffix) ==
    /\ Len(s) >= Len(suffix)
    /\ SubSeq(s, Len(s) - Len(suffix) + 1, Len(s)) = suffix

\* strings.HasPrefix(s, prefix)
HasPrefix(s, prefix) ==
    /\ Len(s) >= Len(prefix)
    /\ SubSeq(s, 1, Len(prefix)) = prefix

\* strings.Index(s, c) for a one-character c: the 0-based position of the
\* first c in s, or -1
Index(s, c) ==
    IF \E i \in 1..Len(s) : s[i] = c
    THEN (CHOOSE i \in 1..Len(s) : s[i] = c /\ \A j \in 1..(i - 1) : s[j] # c) - 1
    ELSE -1

\* h[:i]
Slice(h, i) == SubSeq(h, 1, i)

\* ---------------------------------------------------------------- handlers
\* An http.Handler value is a pointer: addr tells two handlers built from
\* equal rules apart.  Nil is the nil http.Handler.
Nil == [kind |-> "nil", arg |-> "", addr |-> <<0, 0>>]

\* makeHandler(r), the handler being allocated at address a
makeHandler(r, a) ==
    IF r.Forward # ""
    THEN [kind |-> "ReverseProxy", arg |-> r.Forward, addr |-> a]
    ELSE IF r.Serve # ""
    THEN [kind |-> "FileServer", arg |-> r.Serve, addr |-> a]
    ELSE Nil

\* a decoded Rule before parseRules' loop reaches it: handler is nil
Decoded(rec) ==
    [Host |-> rec.Host, Forward |-> rec.Forward, Serve |-> rec.Serve,
     handler |-> Nil]

\* a loop body that leaves the rule's handler nil
Unresolved(r, g, i) == r

\* parseRules' loop body for rule i of table g
Resolved(r, g, i) == [r EXCEPT !.handler = makeHandler(r, <<g, i>>)]

\* a parseRules that leaves out the rules it reports as bad
parseRulesDropBad(recs, g) ==
    LET good == SelectSeq(recs, LAMBDA r : r.Forward # "" \/ r.Serve # "")
    IN  [i \in 1..Len(good) |-> Resolved(Decoded(good[i]), g, i)]

\* parseRules on a file that decodes to recs, the table being allocated as g
parseRules(recs, g) ==
    [i \in 1..Len(recs) |-> Resolved(Decoded(recs[i]), g, i)]

\* ------------------------------------------------------------------ router
\* the port strip of handler: h = req.Host up to the first ":"
StripPort(host) ==
    LET i == Index(host, COLON)
    IN  IF i >= 0 THEN Slice(host, i) ELSE host

\* a match test without the dot boundary
MatchNoDot(h, r) == h = r.Host \/ HasSuffix(h, r.Host)

\* the match test of handler's loop
Match(h, r) == h = r.Host \/ HasSuffix(h, <<DOT>> \o r.Host)

\* a scan in which a later matching rule overrides an earlier one
RECURSIVE ScanLast(_, _, _)
ScanLast(table, h, i) ==
    IF i > Len(table) THEN 0
    ELSE LET rest == ScanLast(table, h, i + 1)
         IN  IF rest # 0 THEN rest
             ELSE IF Match(h, table[i]) THEN i ELSE 0

\* handler's loop from rule i on: the index of the first rule that matches
\* h, the rule whose hit counter is incremented and whose handler is
\* returned; 0 when the loop ends without a match
RECURSIVE Scan(_, _, _)
Scan(table, h, i) ==
    IF i > Len(table) THEN 0
    ELSE IF Match(h, table[i]) THEN i
    ELSE Scan(table, h, i + 1)

\* Server.handler on the table for a request with Host header host
handler(table, host) ==
    LET k == Scan(table, StripPort(host), 1)
    IN  IF k = 0 THEN Nil ELSE table[k].handler

\* what a ServeHTTP call does with its ResponseWriter
CallHandler(h) == [op |-> "h.ServeHTTP", h |-> h, code |-> 0, body |-> ""]
NotFound == [op |-> "http.Error", h |-> Nil, code |-> 404, body |-> "Not found."]

\* a ServeHTTP without the return after h.ServeHTTP(w, r)
ServeHTTPNoReturn(table, host) ==
    LET h == handler(table, host)
    IN  IF h # Nil THEN <<CallHandler(h), NotFound>> ELSE <<NotFound>>

\* Server.ServeHTTP on the table for a request with Host header host: the
\* calls it makes on w, in order
ServeHTTP(table, host) ==
    LET h == handler(table, host)
    IN  IF h # Nil THEN <<CallHandler(h)>> ELSE <<NotFound>>

\* ----------------------------------------- the router, earlier revisions
\* part_001 and part_005, loadRules' loop: r.proxy is set from Forward, and
\* then set again from Serve
loadRulesProxy(r, a) ==
    LET p1 == IF r.Forward # ""
              THEN [kind |-> "ReverseProxy", arg |-> r.Forward, addr |-> a]
              ELSE Nil
    IN  IF r.Serve # ""
        THEN [kind |-> "FileServer", arg |-> r.Serve, addr |-> a]
        ELSE p1

\* part_001, loadRules on a file that decodes to recs
loadRules_part001(recs, g) ==
    [i \in 1..Len(recs) |->
        [Decoded(recs[i]) EXCEPT !.handler = loadRulesProxy(recs[i], <<g, i>>)]]

\* part_005, loadRules on a file that decodes to recs: the same loop, run
\* on s.rules under the write lock
loadRules_part005(recs, g) ==
    [i \in 1..Len(recs) |->
        [Decoded(recs[i]) EXCEPT !.handler = loadRulesProxy(recs[i], <<g, i>>)]]

\* part_001 and part_005, ServeHTTP: the port is stripped, the first rule
\* that matches decides, and a nil proxy breaks out of the loop to the 404
ServeHTTP_part001(table, host) ==
    LET k == Scan(table, StripPort(host), 1)
    IN  IF k = 0 THEN Nil ELSE table[k].handler

\* main.go and part_000, ServeHTTP: the proxy of a matching rule is built in
\* the request, Forward first, Static (the later Serve) only if still nil
LazyProxy(r, a) ==
    LET p1 == IF r.Forward # "" /\ r.handler = Nil
              THEN [kind |-> "ReverseProxy", arg |-> r.Forward, addr |-> a]
              ELSE r.handler
    IN  IF r.Serve # "" /\ p1 = Nil
        THEN [kind |-> "FileServer", arg |-> r.Serve, addr |-> a]
        ELSE p1

\* main.go and part_000, loadRules on a file that decodes to recs: the
\* rules are stored as decoded, their proxy nil
loadRules_main(recs) == [i \in 1..Len(recs) |-> Decoded(recs[i])]

\* part_000, ServeHTTP's loop from rule i on: req.Host is compared as it is,
\* and a matching rule whose proxy stays nil is passed over; the result is
\* the index of the rule that serves, or 0
RECURSIVE Scan_part000(_, _, _)
Scan_part000(table, host, i) ==
    IF i > Len(table) THEN 0
    ELSE IF Match(host, table[i]) /\ LazyProxy(table[i], <<1, i>>) # Nil THEN i
    ELSE Scan_part000(table, host, i + 1)

\* main.go, ServeHTTP's loop from rule i on: req.Host is compared as it is,
\* and a matching rule whose proxy stays nil breaks out of the loop
RECURSIVE Scan_main(_, _, _)
Scan_main(table, host, i) ==
    IF i > Len(table) THEN 0
    ELSE IF Match(host, table[i])
    THEN (IF LazyProxy(table[i], <<1, i>>) # Nil THEN i ELSE 0)
    ELSE Scan_main(table, host, i + 1)

ServeHTTP_part000(table, host) ==
    LET k == Scan_part000(table, host, 1)
    IN  IF k = 0 THEN Nil ELSE LazyProxy(table[k], <<1, k>>)

ServeHTTP_main(table, host) ==
    LET k == Scan_main(table, host, 1)
    IN  IF k = 0 THEN Nil ELSE LazyProxy(table[k], <<1, k>>)

\* a part_003 whose test is strings.HasSuffix
MatchSuffix_part003(h, r) == h = r.Host \/ HasSuffix(h, <<DOT>> \o r.Host)

\* part_003, the match test of ServeHTTP's loop on h, the string
\* req.Header.Get("Host") returned
Match_part003(h, r) == h = r.Host \/ HasPrefix(h, <<DOT>> \o r.Host)

\* part_003, ServeHTTP's loop from rule i on: a matching rule whose proxy
\* stays nil is passed over; the result is the index of the rule that
\* serves, or 0
RECURSIVE Scan_part003(_, _, _)
Scan_part003(table, h, i) ==
    IF i > Len(table) THEN 0
    ELSE IF Match_part003(h, table[i]) /\ LazyProxy(table[i], <<1, i>>) # Nil THEN i
    ELSE Scan_part003(table, h, i + 1)

\* Header.Get(key): the value stored under key in the header map (a set
\* of <<key, value>> pairs), "" when there is none
HeaderGet(header, key) ==
    IF \E p \in header : p[1] = key
    THEN (CHOOSE p \in header : p[1] = key)[2]
    ELSE <<>>

\* the request http.ListenAndServe hands to ServeHTTP when the client sent
\* the Host header host: net/http keeps it in req.Host and deletes it from
\* req.Header
ServerRequest(host) == [Host |-> host, Header |-> {}]

\* part_003, ServeHTTP: h := req.Header.Get("Host"), then the loop
ServeHTTP_part003(table, req) ==
    LET k == Scan_part003(table, HeaderGet(req.Header, "Host"), 1)
    IN  IF k = 0 THEN Nil ELSE LazyProxy(table[k], <<1, k>>)

\* ------------------------------------------- part_005, the redirect rewrite
\* strconv.Itoa(n)
DigitChars == <<"0", "1", "2", "3", "4", "5", "6", "7", "8", "9">>
RECURSIVE Itoa(_)
Itoa(n) ==
    IF n < 0 THEN <<"-">> \o Itoa(0 - n)
    ELSE IF n < 10 THEN <<DigitChars[n + 1]>>
    ELSE Itoa(n \div 10) \o <<DigitChars[(n % 10) + 1]>>

SLASH == "/"
SchemeLetters == {"h", "t", "p", "s", "a", "b"}
Digits == {DigitChars[i] : i \in 1..Len(DigitChars)}
HTTP == <<"h", "t", "t", "p">>
HTTPS == <<"h", "t", "t", "p", "s">>

\* s[i:]
From(s, i) == SubSeq(s, i + 1, Len(s))

\* url.Parse's getScheme: the length of the scheme of s, 0 if it has none,
\* -1 if s begins with ":"
RECURSIVE getScheme(_, _)
getScheme(s, i) ==
    IF i > Len(s) THEN 0
    ELSE IF s[i] \in SchemeLetters \cup LetterChars THEN getScheme(s, i + 1)
    ELSE IF s[i] \in Digits \cup {DOT, "+", "-"}
         THEN (IF i = 1 THEN 0 ELSE getScheme(s, i + 1))
    ELSE IF s[i] = COLON THEN (IF i = 1 THEN -1 ELSE i - 1)
    ELSE 0

\* strings.LastIndex(s, c) for a one-character c
LastIndex(s, c) ==
    IF \E i \in 1..Len(s) : s[i] = c
    THEN (CHOOSE i \in 1..Len(s) : s[i] = c /\ \A j \in (i + 1)..Len(s) : s[j] # c) - 1
    ELSE -1

\* url.Parse's validOptionalPort on the host from its last ":" on
validOptionalPort(host) ==
    LET i == LastIndex(host, COLON)
    IN  i = -1 \/ \A j \in (i + 2)..Len(host) : host[j] \in Digits

\* the error value of url.Parse and of Response.Location
NoURL ==
    [err |-> TRUE, scheme |-> <<>>, opaque |-> <<>>, host |-> <<>>,
     path |-> <<>>, omitHost |-> FALSE]

\* url.Parse(s) for a string without user, query, fragment, escapes and
\* brackets: the scheme; an opaque URL when a scheme is followed by something
\* that does not begin with "/"; the error for a first path segment with a
\* colon; the authority after "//" (after "///" only behind a scheme), whose
\* port must be digits; and the path
ParseURL(s) ==
    LET n == getScheme(s, 1)
        scheme == IF n > 0 THEN Slice(s, n) ELSE <<>>
        rest == IF n > 0 THEN From(s, n + 1) ELSE s
        rooted == HasPrefix(rest, <<SLASH>>)
        k0 == Index(rest, SLASH)
        segment == IF k0 >= 0 THEN Slice(rest, k0) ELSE rest
        auth == /\ HasPrefix(rest, <<SLASH, SLASH>>)
                /\ (scheme # <<>> \/ ~HasPrefix(rest, <<SLASH, SLASH, SLASH>>))
        hp == From(rest, 2)
        k == Index(hp, SLASH)
        host == IF ~auth THEN <<>> ELSE IF k >= 0 THEN Slice(hp, k) ELSE hp
        path == IF ~auth THEN rest ELSE IF k >= 0 THEN From(hp, k) ELSE <<>>
    IN  IF n = -1 THEN NoURL
        ELSE IF ~rooted /\ scheme # <<>>
        THEN [err |-> FALSE, scheme |-> scheme, opaque |-> rest, host |-> <<>>,
              path |-> <<>>, omitHost |-> FALSE]
        ELSE IF ~rooted /\ Index(segment, COLON) >= 0 THEN NoURL
        ELSE IF ~validOptionalPort(host) THEN NoURL
        ELSE [err |-> FALSE, scheme |-> scheme, opaque |-> <<>>, host |-> host,
              path |-> path, omitHost |-> (~auth /\ scheme # <<>> /\ rooted)]

\* URL.String() for a URL without user, query and fragment
URLString(u) ==
    LET k == Index(u.path, SLASH)
        segment == IF k >= 0 THEN Slice(u.path, k) ELSE u.path
    IN  (IF u.scheme # <<>> THEN u.scheme \o <<COLON>> ELSE <<>>)
        \o (IF u.opaque # <<>> THEN u.opaque
            ELSE (IF (u.scheme # <<>> \/ u.host # <<>>)
                      /\ ~(u.omitHost /\ u.host = <<>>)
                      /\ (u.host # <<>> \/ u.path # <<>>)
                  THEN <<SLASH, SLASH>> ELSE <<>>)
                 \o u.host
                 \o (IF u.path # <<>> /\ u.path[1] # SLASH /\ u.host # <<>>
                     THEN <<SLASH>> ELSE <<>>)
                 \o (IF u.scheme = <<>> /\ u.host = <<>> /\ Index(segment, COLON) >= 0
                     THEN <<DOT, SLASH>> ELSE <<>>)
                 \o u.path)

\* the elements strings.Cut(remaining, "/") yields one after the other
RECURSIVE SplitSlash(_)
SplitSlash(s) ==
    LET k == Index(s, SLASH)
    IN  IF k = -1 THEN <<s>> ELSE <<Slice(s, k)>> \o SplitSlash(From(s, k + 1))

\* resolvePath's loop over the elements from the i-th on: "." is dropped,
\* ".." takes the last element off dst, any other element is appended
RECURSIVE RemoveDots(_, _, _, _)
RemoveDots(elems, i, dst, first) ==
    IF i > Len(elems) THEN dst
    ELSE IF elems[i] = <<DOT>> THEN RemoveDots(elems, i + 1, dst, FALSE)
    ELSE IF elems[i] = <<DOT, DOT>>
    THEN LET str == From(dst, 1)
             index == LastIndex(str, SLASH)
         IN  IF index = -1 THEN RemoveDots(elems, i + 1, <<SLASH>>, TRUE)
             ELSE RemoveDots(elems, i + 1, <<SLASH>> \o Slice(str, index), first)
    ELSE RemoveDots(elems, i + 1,
                    dst \o (IF first THEN <<>> ELSE <<SLASH>>) \o elems[i], FALSE)

\* net/url's resolvePath(base, ref)
resolvePath(base, ref) ==
    LET full == IF ref = <<>> THEN base
                ELSE IF ref[1] # SLASH
                THEN Slice(base, LastIndex(base, SLASH) + 1) \o ref
                ELSE ref
        elems == SplitSlash(full)
        dst == RemoveDots(elems, 1, <<SLASH>>, TRUE)
        r == IF elems[Len(elems)] \in {<<DOT>>, <<DOT, DOT>>}
             THEN dst \o <<SLASH>> ELSE dst
    IN  IF full = <<>> THEN <<>>
        ELSE IF Len(r) > 1 /\ r[2] = SLASH THEN From(r, 1)
        ELSE r

\* u.ResolveReference(ref) for URLs without user, query and fragment
ResolveReference(u, ref) ==
    LET url == IF ref.scheme = <<>> THEN [ref EXCEPT !.scheme = u.scheme] ELSE ref
    IN  IF ref.scheme # <<>> \/ ref.host # <<>>
        THEN [url EXCEPT !.path = resolvePath(ref.path, <<>>)]
        ELSE IF ref.opaque # <<>>
        THEN [url EXCEPT !.host = <<>>, !.path = <<>>]
        ELSE IF ref.path = <<>> /\ u.opaque # <<>>
        THEN [url EXCEPT !.opaque = u.opaque, !.host = <<>>, !.path = <<>>]
        ELSE [url EXCEPT !.host = u.host, !.path = resolvePath(u.path, ref.path)]

\* Response.Location(): the Location header parsed and resolved against the
\* URL of the request that was sent upstream; no header is ErrNoLocation
Location(res) ==
    LET ref == ParseURL(res.location)
    IN  IF res.location = <<>> \/ ref.err THEN NoURL
        ELSE ResolveReference(res.req, ref)

\* a ModifyResponse that rewrites every redirect
ModifyResponseAlways(r, port, res) ==
    LET u == Location(res)
    IN  IF ~u.err
        THEN [res EXCEPT !.location =
                 URLString([u EXCEPT !.scheme = HTTPS,
                                     !.host = r.Host \o <<COLON>> \o Itoa(port)])]
        ELSE res

\* makeHandler's ModifyResponse for the rule r and the -https_port flag
ModifyResponse(r, port, res) ==
    LET u == Location(res)
    IN  IF ~u.err /\ ~HasSuffix(u.host, r.Host)
        THEN [res EXCEPT !.location =
                 URLString([u EXCEPT !.scheme = HTTPS,
                                     !.host = r.Host \o <<COLON>> \o Itoa(port)])]
        ELSE res

\* -------------------------------------------------------------- hostPolicy
\* the error hostPolicy returns: nil, or fmt.Errorf("unrecognized host %q", host)
NoError == [msg |-> "", host |-> <<>>]
Unrecognized(host) == [msg |-> "unrecognized host", host |-> host]

WWW == <<"w", "w", "w", DOT>>

\* hostPolicy's loop from rule i on
RECURSIVE hostPolicyFrom(_, _, _)
hostPolicyFrom(table, host, i) ==
    IF i > Len(table) THEN Unrecognized(host)
    ELSE IF host = table[i].Host \/ host = WWW \o table[i].Host THEN NoError
    ELSE hostPolicyFrom(table, host, i + 1)

\* Server.hostPolicy on the table
hostPolicy(table, host) == hostPolicyFrom(table, host, 1)

\* part_005 (its second revision, lines 169-458), hostPolicy's loop
RECURSIVE hostPolicyFrom_part005(_, _, _)
hostPolicyFrom_part005(table, host, i) ==
    IF i > Len(table) THEN Unrecognized(host)
    ELSE IF host = table[i].Host \/ HasSuffix(host, table[i].Host) THEN NoError
    ELSE hostPolicyFrom_part005(table, host, i + 1)

hostPolicy_part005(table, host) == hostPolicyFrom_part005(table, host, 1)

\* ------------------------------------------------------------------- state
VARIABLES
    file,      \* the rule file: [status, mtime, content]
    last,      \* Server.last
    rules,     \* Server.rules, a slice header: [ptr, len]; ptr 0 is a nil slice
    heap,      \* the backing arrays the loader allocated: heap[g] is table g
    mu,        \* Server.mu: [writer, readers]
    ld,        \* the goroutine running loadRules: [pc, mtime, rules, i, w, err, logged]
    proc,      \* the process: "init" (in NewServer), "serving", "exited"
    rq,        \* the goroutines running ServeHTTP: [pc, host, h, snap, i, res, out]
    cur,       \* history: the table whose publication completed last
    seen,      \* history: the tables that were current during a handler call
    attempt,   \* history: Server.last, Server.rules, the number of tables
               \* allocated and the file's mtime when the load attempt began
    pin,       \* routing specification: the inputs drawn
    pout       \* routing specification: the result

srv == <<last, rules, heap, mu>>
hist == <<cur, seen, attempt>>
pure == <<pin, pout>>
vars ==
    <<file, last, rules, heap, mu, ld, proc, rq, cur, seen, attempt,
      pin, pout>>

\* the goroutines that serve requests
Reqs == {"r1", "r2"}

\* what the rule file can decode to; content 0 is a file that does not decode
RuleA1 == [Host |-> <<"a">>, Forward |-> "f", Serve |-> ""]
RuleB == [Host |-> <<"b">>, Forward |-> "", Serve |-> "s"]
RuleA2 == [Host |-> <<"a">>, Forward |-> "g", Serve |-> ""]
Files == << <<RuleA1>>, <<RuleB, RuleA2>> >>
Malformed == 0
Contents == {Malformed} \cup (1..Len(Files))

\* the Host headers of the requests served
ReqHosts == {<<"a">>, <<"b">>}

MissingFile == [status |-> "missing", mtime |-> 1, content |-> Malformed]
FileStates ==
    {MissingFile} \cup [status : {"ok"}, mtime : 1..MaxTime, content : Contents]

NilSlice == [ptr |-> 0, len |-> 0]
IdleReq ==
    [pc |-> "idle", host |-> <<>>, h |-> <<>>, snap |-> NilSlice, i |-> 0,
     res |-> Nil, out |-> "none"]
IdleLoader ==
    [pc |-> "stat", mtime |-> 0, rules |-> 0, i |-> 0, w |-> "none",
     err |-> "", logged |-> FALSE]
NoInput == [recs |-> <<>>, host |-> <<>>]
NoOutput == [by |-> "none", table |-> <<>>, hit |-> 0, h |-> Nil]

\* what an out-of-range or nil-pointer read of a torn slice header yields
Wild == [kind |-> "wild", arg |-> "", addr |-> <<0, 0>>]

\* the table a slice header denotes: element i of its backing array for
\* every i up to len
Elem(hd, i) ==
    IF hd.ptr # 0 /\ hd.ptr <= Len(heap) /\ i <= Len(heap[hd.ptr])
    THEN heap[hd.ptr][i]
    ELSE [Host |-> <<>>, Forward |-> "", Serve |-> "", handler |-> Wild]

\* ------------------------------------------------------------------- mutex
\* sync.RWMutex: RLock succeeds when no writer holds the lock
CanRLockAlways(m) == TRUE

CanRLock(m) == ~m.writer

\* sync.RWMutex: Lock succeeds when nobody holds the lock
CanLock(m) == ~m.writer /\ m.readers = {}

\* ------------------------------------------------------------------ loader
\* loadRules' test for an unchanged file, as part_004 writes it
NoChangeBefore(mtime, lst, rls) == mtime < lst /\ rls.ptr # 0

\* loadRules' test for an unchanged file: !mtime.After(s.last) && s.rules != nil
NoChange(mtime, lst, rls) == ~(mtime > lst) /\ rls.ptr # 0

\* a loader that goes on to publish what parseRules returned with its error
OnParseErrorPublish(l, e) == [l EXCEPT !.pc = "lock", !.rules = 0, !.err = e]

\* loadRules when parseRules returns an error: return err
OnParseError(l, e) == [l EXCEPT !.pc = "ret", !.mtime = 0, !.err = e]

\* what a load attempt finds when it begins (mtime 0: os.Stat fails)
AttemptNow ==
    [last |-> last, rules |-> rules, allocs |-> Len(heap),
     mtime |-> IF file.status = "missing" THEN 0 ELSE file.mtime]
NoAttempt == [last |-> 0, rules |-> NilSlice, allocs |-> 0, mtime |-> 0]

\* loadRules from os.Stat to the test for an unchanged file: a missing file
\* is returned as the error, an unchanged file returns nil, and anything
\* else goes on to parseRules
StatStep(skip) ==
    /\ proc \in {"init", "serving"}
    /\ ld.pc = "stat"
    /\ ld' = IF file.status = "missing"
             THEN [ld EXCEPT !.pc = "ret", !.err = "stat", !.logged = FALSE]
             ELSE IF skip
             THEN [ld EXCEPT !.pc = "ret", !.err = "", !.logged = FALSE]
             ELSE [ld EXCEPT !.pc = "parse", !.mtime = file.mtime, !.err = "",
                             !.logged = FALSE]
    /\ attempt' = AttemptNow
    /\ UNCHANGED <<file, srv, proc, rq, cur, seen, pure>>

\* a loadRules whose test for an unchanged file is mtime.Before(s.last)
loadRules_StatNotBefore == StatStep(NoChangeBefore(file.mtime, last, rules))

\* a loadRules that returns nil whenever s.rules is not nil
loadRules_StatSkipLoaded == StatStep(rules.ptr # 0)

loadRules_Stat == StatStep(NoChange(file.mtime, last, rules))

\* parseRules: os.Open and Decode; the decoded rules are a new backing array
\* whose handlers are still nil
parseRules_Decode ==
    /\ proc \in {"init", "serving"}
    /\ ld.pc = "parse"
    /\ \/ /\ file.status = "missing"
          /\ ld' = OnParseError(ld, "open")
          /\ heap' = heap
       \/ /\ file.status = "ok" /\ file.content = Malformed
          /\ ld' = OnParseError(ld, "decode")
          /\ heap' = heap
       \/ /\ file.status = "ok" /\ file.content # Malformed
          /\ Len(heap) < MaxLoads
          /\ heap' = Append(heap, [i \in 1..Len(Files[file.content]) |->
                                       Decoded(Files[file.content][i])])
          /\ ld' = [ld EXCEPT !.pc = "resolve", !.rules = Len(heap) + 1, !.i = 1]
    /\ UNCHANGED <<file, last, rules, mu, proc, rq, hist, pure>>

\* parseRules' loop: r.handler = makeHandler(r), one rule a step
parseRules_Loop ==
    /\ proc \in {"init", "serving"}
    /\ ld.pc = "resolve"
    /\ IF ld.i <= Len(heap[ld.rules])
       THEN /\ heap' = [heap EXCEPT ![ld.rules][ld.i] = Resolved(@, ld.rules, ld.i)]
            /\ ld' = [ld EXCEPT !.i = @ + 1]
       ELSE /\ heap' = heap
            /\ ld' = [ld EXCEPT !.pc = "lock", !.i = 0]
    /\ UNCHANGED <<file, last, rules, mu, proc, rq, hist, pure>>

\* s.mu.Lock()
loadRules_Lock ==
    /\ proc \in {"init", "serving"}
    /\ ld.pc = "lock"
    /\ CanLock(mu)
    /\ mu' = [mu EXCEPT !.writer = TRUE]
    /\ ld' = [ld EXCEPT !.pc = "setlast"]
    /\ UNCHANGED <<file, last, rules, heap, proc, rq, hist, pure>>

\* a loader that does not record the load time
loadRules_KeepLast ==
    /\ proc \in {"init", "serving"}
    /\ ld.pc = "setlast"
    /\ last' = last
    /\ ld' = [ld EXCEPT !.pc = "setrules", !.mtime = 0]
    /\ UNCHANGED <<file, rules, heap, mu, proc, rq, hist, pure>>

\* s.last = mtime
loadRules_SetLast ==
    /\ proc \in {"init", "serving"}
    /\ ld.pc = "setlast"
    /\ last' = ld.mtime
    /\ ld' = [ld EXCEPT !.pc = "setrules", !.mtime = 0]
    /\ UNCHANGED <<file, rules, heap, mu, proc, rq, hist, pure>>

\* the length of the slice the loader holds in its local variable rules
LocalLen == IF ld.rules = 0 THEN 0 ELSE Len(heap[ld.rules])

\* s.rules = rules: a slice header is more than one word, and the words are
\* stored one after the other, in an order the compiler chooses
loadRules_SetRules ==
    /\ proc \in {"init", "serving"}
    /\ ld.pc = "setrules"
    /\ \/ /\ ld.w = "none"
          /\ \E w \in {"ptr", "len"} :
                /\ rules' = IF w = "ptr" THEN [rules EXCEPT !.ptr = ld.rules]
                            ELSE [rules EXCEPT !.len = LocalLen]
                /\ ld' = [ld EXCEPT !.w = w]
          /\ UNCHANGED <<cur, seen>>
       \/ /\ ld.w # "none"
          /\ rules' = [ptr |-> ld.rules, len |-> LocalLen]
          /\ ld' = [ld EXCEPT !.pc = "unlock", !.w = "none", !.rules = 0]
          /\ cur' = ld.rules
          /\ seen' = [r \in Reqs |->
                        IF rq[r].pc \in {"rlock", "scan", "runlock"}
                        THEN seen[r] \cup {ld.rules} ELSE seen[r]]
    /\ UNCHANGED <<file, last, heap, mu, proc, rq, attempt, pure>>

\* s.mu.Unlock(); return nil
loadRules_Unlock ==
    /\ proc \in {"init", "serving"}
    /\ ld.pc = "unlock"
    /\ mu' = [mu EXCEPT !.writer = FALSE]
    /\ ld' = [ld EXCEPT !.pc = "ret"]
    /\ UNCHANGED <<file, last, rules, heap, proc, rq, hist, pure>>

\* a NewServer that starts refreshRules while its own loadRules is still
\* running
NewServer_ReturnEarly ==
    /\ proc = "init"
    /\ ld.pc \in {"resolve", "ret"}
    /\ IF ld.err # ""
       THEN /\ proc' = "exited"
            /\ ld' = [ld EXCEPT !.pc = "none"]
       ELSE /\ proc' = "serving"
            /\ ld' = [ld EXCEPT !.pc = "stat"]
    /\ UNCHANGED <<file, srv, rq, hist, pure>>

\* NewServer after its loadRules: return nil, err (main then calls
\* log.Fatal), or start refreshRules, whose loop begins with loadRules
NewServer_Return ==
    /\ proc = "init"
    /\ ld.pc = "ret"
    /\ IF ld.err # ""
       THEN /\ proc' = "exited"
            /\ ld' = [ld EXCEPT !.pc = "none"]
       ELSE /\ proc' = "serving"
            /\ ld' = [ld EXCEPT !.pc = "stat"]
    /\ UNCHANGED <<file, srv, rq, hist, pure>>

\* a refreshRules that drops the error of its loadRules
refreshRules_SleepSilent ==
    /\ proc = "serving"
    /\ ld.pc = "ret"
    /\ ld' = [ld EXCEPT !.pc = "sleep", !.logged = FALSE]
    /\ UNCHANGED <<file, srv, proc, rq, hist, pure>>

\* refreshRules after its loadRules: log.Println(err) if it failed, then
\* time.Sleep(poll)
refreshRules_Sleep ==
    /\ proc = "serving"
    /\ ld.pc = "ret"
    /\ ld' = [ld EXCEPT !.pc = "sleep", !.logged = (ld.err # "")]
    /\ UNCHANGED <<file, srv, proc, rq, hist, pure>>

\* refreshRules when time.Sleep returns: the next iteration of its loop
refreshRules_Tick ==
    /\ proc = "serving"
    /\ ld.pc = "sleep"
    /\ ld' = [ld EXCEPT !.pc = "stat"]
    /\ UNCHANGED <<file, srv, proc, rq, hist, pure>>

\* ------------------------------------------------------------- environment
\* somebody writes, touches or replaces the rule file
WriteFile ==
    /\ proc \in {"init", "serving"}
    /\ \E c \in Contents, t \in 1..MaxTime :
          /\ file' = [status |-> "ok", mtime |-> t, content |-> c]
          /\ file' # file
    /\ UNCHANGED <<srv, ld, proc, rq, hist, pure>>

\* somebody removes the rule file
RemoveFile ==
    /\ proc \in {"init", "serving"}
    /\ file.status = "ok"
    /\ file' = MissingFile
    /\ UNCHANGED <<srv, ld, proc, rq, hist, pure>>

\* ---------------------------------------------------------------- requests
\* a request arrives: http.Serve calls ServeHTTP, which calls s.handler(r)
ServeHTTP_Start(r) ==
    /\ proc = "serving"
    /\ rq[r].pc = "idle"
    /\ \E host \in ReqHosts : rq' = [rq EXCEPT ![r] = [IdleReq EXCEPT !.pc = "rlock", !.host = host]]
    /\ seen' = [seen EXCEPT ![r] = {cur}]
    /\ UNCHANGED <<file, srv, ld, proc, cur, attempt, pure>>

\* handler: s.mu.RLock(); h is req.Host without its port; range s.rules
\* evaluates the slice once
handler_RLock(r) ==
    /\ rq[r].pc = "rlock"
    /\ CanRLock(mu)
    /\ mu' = [mu EXCEPT !.readers = @ \cup {r}]
    /\ rq' = [rq EXCEPT ![r].pc = "scan", ![r].h = StripPort(rq[r].host),
                        ![r].snap = rules, ![r].i = 1]
    /\ UNCHANGED <<file, last, rules, heap, ld, proc, hist, pure>>

\* handler: one iteration of the loop over the rules
handler_Loop(r) ==
    /\ rq[r].pc = "scan"
    /\ LET q == rq[r]
           rule == Elem(q.snap, q.i)
       IN  rq' = IF q.i > q.snap.len
                 THEN [rq EXCEPT ![r].pc = "runlock", ![r].res = Nil]
                 ELSE IF rule.handler = Wild \/ Match(q.h, rule)
                 THEN [rq EXCEPT ![r].pc = "runlock", ![r].res = rule.handler]
                 ELSE [rq EXCEPT ![r].i = @ + 1]
    /\ UNCHANGED <<file, srv, ld, proc, hist, pure>>

\* a handler that returns with the read lock still held
handler_KeepRLock(r) ==
    /\ rq[r].pc = "runlock"
    /\ mu' = mu
    /\ rq' = [rq EXCEPT ![r].pc = "dispatch", ![r].h = <<>>,
                        ![r].snap = NilSlice, ![r].i = 0]
    /\ seen' = [seen EXCEPT ![r] = {}]
    /\ UNCHANGED <<file, last, rules, heap, ld, proc, cur, attempt, pure>>

\* handler returns: the deferred s.mu.RUnlock()
handler_RUnlock(r) ==
    /\ rq[r].pc = "runlock"
    /\ mu' = [mu EXCEPT !.readers = @ \ {r}]
    /\ rq' = [rq EXCEPT ![r].pc = "dispatch", ![r].h = <<>>,
                        ![r].snap = NilSlice, ![r].i = 0]
    /\ seen' = [seen EXCEPT ![r] = {}]
    /\ UNCHANGED <<file, last, rules, heap, ld, proc, cur, attempt, pure>>

\* ServeHTTP: h.ServeHTTP(w, r) if h != nil, else http.Error "Not found."
ServeHTTP_Dispatch(r) ==
    /\ rq[r].pc = "dispatch"
    /\ rq' = IF rq[r].res # Nil
             THEN [rq EXCEPT ![r].pc = "inhandler", ![r].out = "handler"]
             ELSE [rq EXCEPT ![r].pc = "notfound", ![r].out = "404"]
    /\ UNCHANGED <<file, srv, ld, proc, hist, pure>>

\* ServeHTTP returns, after the rule's handler returned or after the 404
ServeHTTP_Return(r) ==
    /\ rq[r].pc \in {"inhandler", "notfound"}
    /\ rq' = [rq EXCEPT ![r] = IdleReq]
    /\ UNCHANGED <<file, srv, ld, proc, hist, pure>>

\* ----------------------------------------------------------- specification
\* the process starts: main calls NewServer, which calls loadRules on a new
\* Server; the rule file is in any state
Init ==
    /\ file \in FileStates
    /\ last = 0
    /\ rules = NilSlice
    /\ heap = <<>>
    /\ mu = [writer |-> FALSE, readers |-> {}]
    /\ ld = IdleLoader
    /\ proc = "init"
    /\ rq = [r \in Reqs |-> IdleReq]
    /\ cur = 0
    /\ seen = [r \in Reqs |-> {}]
    /\ attempt = NoAttempt
    /\ pin = NoInput
    /\ pout = NoOutput

InitServerOff ==
    /\ file = MissingFile
    /\ last = 0
    /\ rules = NilSlice
    /\ heap = <<>>
    /\ mu = [writer |-> FALSE, readers |-> {}]
    /\ ld = IdleLoader
    /\ proc = "off"
    /\ rq = [r \in Reqs |-> IdleReq]
    /\ cur = 0
    /\ seen = [r \in Reqs |-> {}]
    /\ attempt = NoAttempt

Loader ==
    \/ loadRules_Stat
    \/ parseRules_Decode
    \/ parseRules_Loop
    \/ loadRules_Lock
    \/ loadRules_SetLast
    \/ loadRules_SetRules
    \/ loadRules_Unlock
    \/ NewServer_Return
    \/ refreshRules_Sleep
    \/ refreshRules_Tick

Request(r) ==
    \/ ServeHTTP_Start(r)
    \/ handler_RLock(r)
    \/ handler_Loop(r)
    \/ handler_RUnlock(r)
    \/ ServeHTTP_Dispatch(r)
    \/ ServeHTTP_Return(r)

Next ==
    \/ Loader
    \/ \E r \in Reqs : Request(r)
    \/ WriteFile
    \/ RemoveFile

Spec == Init /\ [][Next]_vars

\* ------------------------------------------------- part_002 with scheduling
\* sync.RWMutex as the runtime implements it.  Lock takes rw.w, the mutex
\* that lets one writer in at a time, then announces the writer (readerCount
\* goes negative) and waits until the readers that hold the lock have left.
\* An RLock call made while a writer is announced parks.  Unlock takes the
\* announcement back and wakes every parked reader, which holds the read
\* lock from then on, before it releases rw.w.  loadRules is the one writer
\* of part_002, so rw.w is free whenever it calls Lock.

\* a writer is announced: loadRules waits for the readers to leave, or holds
\* the write lock
WriterAnnounced == mu.writer \/ ld.pc = "drain"

\* the calls of RLock that are parked
Parked == {q \in Reqs : rq[q].pc \in {"rparked", "policy_rparked"}}

\* a parked call of RLock when Unlock wakes it: it holds the read lock, and
\* handler or hostPolicy goes on to range over s.rules
Woken(q) ==
    IF q.pc = "rparked"
    THEN [q EXCEPT !.pc = "scan", !.h = StripPort(q.host),
                   !.snap = rules, !.i = 1]
    ELSE IF q.pc = "policy_rparked"
    THEN [q EXCEPT !.pc = "policy_scan", !.h = q.host,
                   !.snap = rules, !.i = 1]
    ELSE q

\* s.mu.Lock() in loadRules: rw.w is taken and the writer announced
loadRules_Announce ==
    /\ proc \in {"init", "serving"}
    /\ ld.pc = "lock"
    /\ ~WriterAnnounced
    /\ ld' = [ld EXCEPT !.pc = "drain"]
    /\ UNCHANGED <<file, srv, proc, rq, hist, pure>>

\* s.mu.Lock() in loadRules returns: the readers have left
loadRules_Lock_Drained ==
    /\ proc \in {"init", "serving"}
    /\ ld.pc = "drain"
    /\ mu.readers = {}
    /\ mu' = [mu EXCEPT !.writer = TRUE]
    /\ ld' = [ld EXCEPT !.pc = "setlast"]
    /\ UNCHANGED <<file, last, rules, heap, proc, rq, hist, pure>>

\* s.mu.Unlock(); return nil: the parked readers get the read lock
loadRules_Unlock_Wake ==
    /\ proc \in {"init", "serving"}
    /\ ld.pc = "unlock"
    /\ mu' = [writer |-> FALSE, readers |-> Parked]
    /\ rq' = [q \in Reqs |-> Woken(rq[q])]
    /\ ld' = [ld EXCEPT !.pc = "ret"]
    /\ UNCHANGED <<file, last, rules, heap, proc, hist, pure>>

Loader_Fair ==
    \/ loadRules_Stat
    \/ parseRules_Decode
    \/ parseRules_Loop
    \/ loadRules_Announce
    \/ loadRules_Lock_Drained
    \/ loadRules_SetLast
    \/ loadRules_SetRules
    \/ loadRules_Unlock_Wake
    \/ NewServer_Return
    \/ refreshRules_Sleep
    \/ refreshRules_Tick

\* s.mu.RLock() in handler while no writer is announced
handler_RLock_Free(r) ==
    /\ ~WriterAnnounced
    /\ handler_RLock(r)

\* s.mu.RLock() in handler while a writer is announced: the call parks
handler_RLock_Park(r) ==
    /\ rq[r].pc = "rlock"
    /\ WriterAnnounced
    /\ rq' = [rq EXCEPT ![r].pc = "rparked"]
    /\ UNCHANGED <<file, srv, ld, proc, hist, pure>>

\* the call of s.handler(r): from s.mu.RLock() to its return
handler_Call(r) ==
    \/ handler_RLock_Free(r)
    \/ handler_RLock_Park(r)
    \/ handler_Loop(r)
    \/ handler_RUnlock(r)

\* the name autocert asks hostPolicy about: a rule's Host in one rule file,
\* no rule's Host in another
PolicyNames == {<<"a">>}

\* autocert calls s.hostPolicy(ctx, host) on the goroutine of a TLS handshake
hostPolicy_Start(r) ==
    /\ proc = "serving"
    /\ rq[r].pc = "idle"
    /\ \E host \in PolicyNames :
           rq' = [rq EXCEPT ![r].pc = "policy_rlock", ![r].host = host]
    /\ UNCHANGED <<file, srv, ld, proc, hist, pure>>

\* hostPolicy: s.mu.RLock(); range s.rules evaluates the slice once
hostPolicy_RLock(r) ==
    /\ rq[r].pc = "policy_rlock"
    /\ CanRLock(mu)
    /\ mu' = [mu EXCEPT !.readers = @ \cup {r}]
    /\ rq' = [rq EXCEPT ![r].pc = "policy_scan", ![r].h = rq[r].host,
                        ![r].snap = rules, ![r].i = 1]
    /\ UNCHANGED <<file, last, rules, heap, ld, proc, hist, pure>>

\* s.mu.RLock() in hostPolicy while no writer is announced
hostPolicy_RLock_Free(r) ==
    /\ ~WriterAnnounced
    /\ hostPolicy_RLock(r)

\* s.mu.RLock() in hostPolicy while a writer is announced: the call parks
hostPolicy_RLock_Park(r) ==
    /\ rq[r].pc = "policy_rlock"
    /\ WriterAnnounced
    /\ rq' = [rq EXCEPT ![r].pc = "policy_rparked"]
    /\ UNCHANGED <<file, srv, ld, proc, hist, pure>>

\* hostPolicy: one iteration of the loop over the rules
hostPolicy_Loop(r) ==
    /\ rq[r].pc = "policy_scan"
    /\ LET q == rq[r]
           rule == Elem(q.snap, q.i)
       IN  IF q.i > q.snap.len
           THEN rq' = [rq EXCEPT ![r].pc = "policy_ret", ![r].out = "unrecognized"]
           ELSE IF q.h = rule.Host \/ q.h = WWW \o rule.Host
                THEN rq' = [rq EXCEPT ![r].pc = "policy_ret", ![r].out = "nil"]
                ELSE rq' = [rq EXCEPT ![r].i = q.i + 1]
    /\ UNCHANGED <<file, srv, ld, proc, hist, pure>>

\* hostPolicy returns: the deferred s.mu.RUnlock()
hostPolicy_RUnlock(r) ==
    /\ rq[r].pc = "policy_ret"
    /\ mu' = [mu EXCEPT !.readers = @ \ {r}]
    /\ rq' = [rq EXCEPT ![r] = IdleReq]
    /\ UNCHANGED <<file, last, rules, heap, ld, proc, hist, pure>>

\* the call of s.hostPolicy: from s.mu.RLock() to its return
hostPolicy_Call(r) ==
    \/ hostPolicy_RLock_Free(r)
    \/ hostPolicy_RLock_Park(r)
    \/ hostPolicy_Loop(r)
    \/ hostPolicy_RUnlock(r)

\* a goroutine of the server routes a request or answers autocert
Request_Fair(r) ==
    \/ ServeHTTP_Start(r)
    \/ handler_Call(r)
    \/ ServeHTTP_Dispatch(r)
    \/ ServeHTTP_Return(r)
    \/ hostPolicy_Start(r)
    \/ hostPolicy_Call(r)

Next_Fair ==
    \/ Loader_Fair
    \/ \E r \in Reqs : Request_Fair(r)
    \/ WriteFile
    \/ RemoveFile

\* The goroutine of the loader and every goroutine that is inside handler or
\* hostPolicy are scheduled again and again.  Nothing is assumed about the
\* handler a request is dispatched to: it runs after handler has released
\* the lock.
Spec_Fair ==
    /\ Init
    /\ [][Next_Fair]_vars
    /\ WF_vars(Loader_Fair)
    /\ \A r \in Reqs : WF_vars(handler_Call(r) \/ hostPolicy_Call(r))

\* ------------------------------------------------- the replaced rule file
\* part_002 in the scenario of a rule file replaced mid-run: the Server
\* starts on the first rule file, last modified at MaxTime; once it is
\* serving, the file is replaced, one time, by the second rule file (which
\* adds a rule for host b) or by content that does not decode, with a
\* modification time before or after the old one.  Request r1 arrives only
\* between the replacement and the next tick of refreshRules; request r2
\* arrives only after the load of that tick has returned.
OldContent == Len(Files) - 1
NewContent == Len(Files)
NewHost == <<"b">>
EarlyReq == "r1"
LateReq == "r2"

InitReplace ==
    /\ file = [status |-> "ok", mtime |-> MaxTime, content |-> OldContent]
    /\ last = 0
    /\ rules = NilSlice
    /\ heap = <<>>
    /\ mu = [writer |-> FALSE, readers |-> {}]
    /\ ld = IdleLoader
    /\ proc = "init"
    /\ rq = [r \in Reqs |-> IdleReq]
    /\ cur = 0
    /\ seen = [r \in Reqs |-> {}]
    /\ attempt = NoAttempt
    /\ pin = NoInput
    /\ pout = NoOutput

\* somebody replaces the rule file; no load attempt has begun since
ReplaceFile ==
    /\ proc = "serving"
    /\ file.content = OldContent
    /\ \E c \in Contents \ {OldContent}, t \in (1..(MaxTime + 1)) \ {file.mtime} :
          file' = [status |-> "ok", mtime |-> t, content |-> c]
    /\ attempt' = NoAttempt
    /\ UNCHANGED <<srv, ld, proc, rq, cur, seen, pure>>

\* the file has been replaced
Replaced == file.content # OldContent

\* a call of loadRules has begun, and its os.Stat has read the file, since
\* the file was replaced
SawReplaced == Replaced /\ attempt # NoAttempt

\* the replaced file is newer than the one the Server loaded
Newer == Replaced /\ file.mtime > MaxTime

\* a request arrives after the replacement and before the next tick
ServeHTTP_Start_BeforeTick ==
    /\ Replaced
    /\ ~SawReplaced
    /\ ld.pc \in {"ret", "sleep"}
    /\ ServeHTTP_Start(EarlyReq)

\* a request arrives after the load of the next tick has returned
ServeHTTP_Start_AfterLoad ==
    /\ SawReplaced
    /\ ld.pc \in {"ret", "sleep"}
    /\ ServeHTTP_Start(LateReq)

Request_Replace(r) ==
    \/ handler_RLock(r)
    \/ handler_Loop(r)
    \/ handler_RUnlock(r)
    \/ ServeHTTP_Dispatch(r)
    \/ ServeHTTP_Return(r)

Next_Replace ==
    \/ Loader
    \/ ReplaceFile
    \/ ServeHTTP_Start_BeforeTick
    \/ ServeHTTP_Start_AfterLoad
    \/ \E r \in Reqs : Request_Replace(r)

Spec_Replace == InitReplace /\ [][Next_Replace]_vars

\* the rule file is replaced, one time, by a file with the modification
\* time of the old one
ReplaceFile_SameTime ==
    /\ proc = "serving"
    /\ file.content = OldContent
    /\ \E c \in Contents \ {OldContent} :
          file' = [status |-> "ok", mtime |-> file.mtime, content |-> c]
    /\ attempt' = NoAttempt
    /\ UNCHANGED <<srv, ld, proc, rq, cur, seen, pure>>

Next_ReplaceFair ==
    \/ Next_Replace
    \/ ReplaceFile_SameTime

\* The scenario with its scheduling: the goroutine of refreshRules and the
\* goroutines of the requests that have arrived are run again and again.
Spec_ReplaceFair ==
    /\ InitReplace
    /\ [][Next_ReplaceFair]_vars
    /\ WF_vars(Loader)
    /\ WF_vars(\E r \in Reqs : Request_Replace(r))

\* ------------------------------------------------- the null rule file
\* part_002 with a rule file whose content is the JSON value null: Decode
\* succeeds and leaves rules nil, so loadRules publishes a nil s.rules.
NullContent == 0 - 1
ContentsOrNull == Contents \cup {NullContent}

\* parseRules on the null file: rules stays nil and the loop has nothing to do
parseRules_DecodeNull ==
    /\ proc \in {"init", "serving"}
    /\ ld.pc = "parse"
    /\ file.status = "ok"
    /\ file.content = NullContent
    /\ heap' = heap
    /\ ld' = [ld EXCEPT !.pc = "lock", !.rules = 0, !.i = 0]
    /\ UNCHANGED <<file, last, rules, mu, proc, rq, hist, pure>>

\* parseRules on any other file
parseRules_DecodeRules ==
    /\ file.content # NullContent
    /\ parseRules_Decode

Loader_Null ==
    \/ loadRules_Stat
    \/ parseRules_DecodeNull
    \/ parseRules_DecodeRules
    \/ parseRules_Loop
    \/ loadRules_Lock
    \/ loadRules_SetLast
    \/ loadRules_SetRules
    \/ loadRules_Unlock
    \/ NewServer_Return
    \/ refreshRules_Sleep
    \/ refreshRules_Tick

\* somebody writes, touches or replaces the rule file
WriteFile_Null ==
    /\ proc \in {"init", "serving"}
    /\ \E c \in ContentsOrNull, t \in 1..MaxTime :
          /\ file' = [status |-> "ok", mtime |-> t, content |-> c]
          /\ file' # file
    /\ UNCHANGED <<srv, ld, proc, rq, hist, pure>>

Init_Null ==
    /\ file \in [status : {"ok"}, mtime : 1..MaxTime, content : ContentsOrNull]
    /\ last = 0
    /\ rules = NilSlice
    /\ heap = <<>>
    /\ mu = [writer |-> FALSE, readers |-> {}]
    /\ ld = IdleLoader
    /\ proc = "init"
    /\ rq = [r \in Reqs |-> IdleReq]
    /\ cur = 0
    /\ seen = [r \in Reqs |-> {}]
    /\ attempt = NoAttempt
    /\ pin = NoInput
    /\ pout = NoOutput

Next_Null ==
    \/ Loader_Null
    \/ WriteFile_Null

Spec_Null == Init_Null /\ [][Next_Null]_vars

\* ---------------------------------------------------------------- part_004
\* part_004 is part_002 without hostPolicy and the hit counter, and with
\* loadRules' test for an unchanged file written mtime.Before(s.last)
loadRules_Stat_part004 == StatStep(NoChangeBefore(file.mtime, last, rules))

Loader_part004 ==
    \/ loadRules_Stat_part004
    \/ parseRules_Decode
    \/ parseRules_Loop
    \/ loadRules_Lock
    \/ loadRules_SetLast
    \/ loadRules_SetRules
    \/ loadRules_Unlock
    \/ NewServer_Return
    \/ refreshRules_Sleep
    \/ refreshRules_Tick

Next_part004 ==
    \/ Loader_part004
    \/ \E r \in Reqs : Request(r)
    \/ WriteFile
    \/ RemoveFile

Spec_part004 == Init /\ [][Next_part004]_vars

\* ----------------------------------------------------------------- main.go
\* main.go: NewServer starts a goroutine that loops over loadRules and
\* returns the Server at once; main then serves.  loadRules takes the write
\* lock before it opens the file and holds it until it returns; the rules
\* are stored as decoded and ServeHTTP builds a matching rule's proxy.

\* the goroutine of NewServer: os.Stat and the test for an unchanged file
loadRules_main_Stat ==
    /\ proc = "serving"
    /\ ld.pc = "stat"
    /\ ld' = IF file.status = "missing"
             THEN [ld EXCEPT !.pc = "ret", !.err = "stat"]
             ELSE IF NoChangeBefore(file.mtime, last, rules)
             THEN [ld EXCEPT !.pc = "ret", !.err = ""]
             ELSE [ld EXCEPT !.pc = "lock", !.mtime = file.mtime, !.err = ""]
    /\ attempt' = AttemptNow
    /\ UNCHANGED <<file, srv, proc, rq, cur, seen, pure>>

\* s.mu.Lock(); defer s.mu.Unlock()
loadRules_main_Lock ==
    /\ proc = "serving"
    /\ ld.pc = "lock"
    /\ CanLock(mu)
    /\ mu' = [mu EXCEPT !.writer = TRUE]
    /\ ld' = [ld EXCEPT !.pc = "parse"]
    /\ UNCHANGED <<file, last, rules, heap, proc, rq, hist, pure>>

\* os.Open and Decode under the write lock; an error returns through the
\* deferred Unlock
loadRules_main_Decode ==
    /\ proc = "serving"
    /\ ld.pc = "parse"
    /\ \/ /\ file.status = "missing"
          /\ ld' = [ld EXCEPT !.pc = "unlock", !.mtime = 0, !.err = "open"]
          /\ heap' = heap
       \/ /\ file.status = "ok" /\ file.content = Malformed
          /\ ld' = [ld EXCEPT !.pc = "unlock", !.mtime = 0, !.err = "decode"]
          /\ heap' = heap
       \/ /\ file.status = "ok" /\ file.content # Malformed
          /\ Len(heap) < MaxLoads
          /\ heap' = Append(heap, loadRules_main(Files[file.content]))
          /\ ld' = [ld EXCEPT !.pc = "setlast", !.rules = Len(heap) + 1]
    /\ UNCHANGED <<file, last, rules, mu, proc, rq, hist, pure>>

\* the goroutine of NewServer after loadRules: log.Fatal(err) ends the
\* process, otherwise time.Sleep(poll)
NewServer_main_Loop ==
    /\ proc = "serving"
    /\ ld.pc = "ret"
    /\ IF ld.err # ""
       THEN /\ proc' = "exited"
            /\ ld' = [ld EXCEPT !.pc = "none", !.logged = TRUE]
       ELSE /\ proc' = proc
            /\ ld' = [ld EXCEPT !.pc = "sleep"]
    /\ UNCHANGED <<file, srv, rq, hist, pure>>

\* time.Sleep returns: the next iteration of the goroutine's loop
NewServer_main_Tick ==
    /\ proc = "serving"
    /\ ld.pc = "sleep"
    /\ ld' = [ld EXCEPT !.pc = "stat"]
    /\ UNCHANGED <<file, srv, proc, rq, hist, pure>>

\* a request arrives: http.Serve calls ServeHTTP
ServeHTTP_main_Start(r) ==
    /\ proc = "serving"
    /\ rq[r].pc = "idle"
    /\ \E host \in ReqHosts :
          rq' = [rq EXCEPT ![r] = [IdleReq EXCEPT !.pc = "rlock", !.host = host]]
    /\ seen' = [seen EXCEPT ![r] = {cur}]
    /\ UNCHANGED <<file, srv, ld, proc, cur, attempt, pure>>

\* s.mu.RLock(); range s.rules evaluates the slice once; req.Host is used
\* as it is
ServeHTTP_main_RLock(r) ==
    /\ proc = "serving"
    /\ rq[r].pc = "rlock"
    /\ CanRLock(mu)
    /\ mu' = [mu EXCEPT !.readers = @ \cup {r}]
    /\ rq' = [rq EXCEPT ![r].pc = "scan", ![r].h = rq[r].host,
                        ![r].snap = rules, ![r].i = 1]
    /\ UNCHANGED <<file, last, rules, heap, ld, proc, hist, pure>>

\* one iteration of ServeHTTP's loop: a rule that does not match is passed
\* over; a matching rule whose proxy can be built serves, through
\* s.mu.RUnlock(); one whose proxy stays nil breaks out to the 404
ServeHTTP_main_Loop(r) ==
    /\ proc = "serving"
    /\ rq[r].pc = "scan"
    /\ LET q == rq[r]
           rule == Elem(q.snap, q.i)
           proxy == LazyProxy(rule, <<q.snap.ptr, q.i>>)
       IN  rq' = IF q.i > q.snap.len
                 THEN [rq EXCEPT ![r].pc = "runlock", ![r].res = Nil]
                 ELSE IF rule.handler = Wild
                 THEN [rq EXCEPT ![r].pc = "runlock", ![r].res = Wild]
                 ELSE IF ~Match(q.h, rule)
                 THEN [rq EXCEPT ![r].i = @ + 1]
                 ELSE [rq EXCEPT ![r].pc = "runlock", ![r].res = proxy]
    /\ UNCHANGED <<file, srv, ld, proc, hist, pure>>

\* s.mu.RUnlock(), on the way to the proxy (then update is true, the stored
\* proxy being nil) or to the 404
ServeHTTP_main_RUnlock(r) ==
    /\ proc = "serving"
    /\ rq[r].pc = "runlock"
    /\ mu' = [mu EXCEPT !.readers = @ \ {r}]
    /\ rq' = [rq EXCEPT ![r].pc = IF rq[r].res # Nil THEN "wlock" ELSE "notfound",
                        ![r].out = IF rq[r].res # Nil THEN "none" ELSE "404",
                        ![r].h = <<>>, ![r].snap = NilSlice, ![r].i = 0]
    /\ seen' = [seen EXCEPT ![r] = {}]
    /\ UNCHANGED <<file, last, rules, heap, ld, proc, cur, attempt, pure>>

\* if update: s.mu.Lock()
ServeHTTP_main_Lock(r) ==
    /\ proc = "serving"
    /\ rq[r].pc = "wlock"
    /\ CanLock(mu)
    /\ mu' = [mu EXCEPT !.writer = TRUE]
    /\ rq' = [rq EXCEPT ![r].pc = "assign"]
    /\ UNCHANGED <<file, last, rules, heap, ld, proc, hist, pure>>

\* r.proxy = proxy; s.mu.Unlock(): r is the loop's copy of the rule, so the
\* table is not changed; then proxy.ServeHTTP(w, req)
ServeHTTP_main_Unlock(r) ==
    /\ proc = "serving"
    /\ rq[r].pc = "assign"
    /\ mu' = [mu EXCEPT !.writer = FALSE]
    /\ rq' = [rq EXCEPT ![r].pc = "inhandler", ![r].out = "handler"]
    /\ UNCHANGED <<file, last, rules, heap, ld, proc, hist, pure>>

\* ServeHTTP returns, after the proxy returned or after the 404
ServeHTTP_main_Return(r) ==
    /\ proc = "serving"
    /\ rq[r].pc \in {"inhandler", "notfound"}
    /\ rq' = [rq EXCEPT ![r] = IdleReq]
    /\ UNCHANGED <<file, srv, ld, proc, hist, pure>>

\* main calls NewServer, which returns the Server with its goroutine
\* started, and then http.Serve
Init_main ==
    /\ file \in FileStates
    /\ last = 0
    /\ rules = NilSlice
    /\ heap = <<>>
    /\ mu = [writer |-> FALSE, readers |-> {}]
    /\ ld = IdleLoader
    /\ proc = "serving"
    /\ rq = [r \in Reqs |-> IdleReq]
    /\ cur = 0
    /\ seen = [r \in Reqs |-> {}]
    /\ attempt = NoAttempt
    /\ pin = NoInput
    /\ pout = NoOutput

Loader_main ==
    \/ loadRules_main_Stat
    \/ loadRules_main_Lock
    \/ loadRules_main_Decode
    \/ loadRules_SetLast
    \/ loadRules_SetRules
    \/ loadRules_Unlock
    \/ NewServer_main_Loop
    \/ NewServer_main_Tick

Request_main(r) ==
    \/ ServeHTTP_main_Start(r)
    \/ ServeHTTP_main_RLock(r)
    \/ ServeHTTP_main_Loop(r)
    \/ ServeHTTP_main_RUnlock(r)
    \/ ServeHTTP_main_Lock(r)
    \/ ServeHTTP_main_Unlock(r)
    \/ ServeHTTP_main_Return(r)

Next_main ==
    \/ Loader_main
    \/ \E r \in Reqs : Request_main(r)
    \/ WriteFile
    \/ RemoveFile

Spec_main == Init_main /\ [][Next_main]_vars

\* ---------------------------------------------------------------- part_000
\* part_000: NewServer and loadRules are main.go's.  ServeHTTP defers
\* s.mu.RUnlock(), and builds the proxy of a matching rule inside the loop
\* after trading the read lock for the write lock and back.

\* one iteration of ServeHTTP's loop: a rule that does not match, or that
\* matches and has neither Forward nor Static, is passed over; otherwise the
\* proxy is to be built (r.proxy of the loop's copy is nil)
ServeHTTP_part000_Loop(r) ==
    /\ proc = "serving"
    /\ rq[r].pc = "scan"
    /\ LET q == rq[r]
           rule == Elem(q.snap, q.i)
       IN  rq' = IF q.i > q.snap.len
                 THEN [rq EXCEPT ![r].pc = "notfound", ![r].res = Nil,
                                 ![r].out = "404"]
                 ELSE IF rule.handler = Wild
                 THEN [rq EXCEPT ![r].pc = "inhandler", ![r].res = Wild,
                                 ![r].out = "handler"]
                 ELSE IF Match(q.h, rule) /\ LazyProxy(rule, <<q.snap.ptr, q.i>>) # Nil
                 THEN [rq EXCEPT ![r].pc = "upgrade"]
                 ELSE [rq EXCEPT ![r].i = @ + 1]
    /\ UNCHANGED <<file, srv, ld, proc, hist, pure>>

\* s.mu.RUnlock() inside the loop, before s.mu.Lock()
ServeHTTP_part000_Upgrade(r) ==
    /\ proc = "serving"
    /\ rq[r].pc = "upgrade"
    /\ mu' = [mu EXCEPT !.readers = @ \ {r}]
    /\ rq' = [rq EXCEPT ![r].pc = "wlock"]
    /\ UNCHANGED <<file, last, rules, heap, ld, proc, hist, pure>>

\* a ServeHTTP whose r is a pointer into the table: r.proxy = the new proxy
\* stores the proxy in the table's rule
ServeHTTP_part000_StoreInTable(r) ==
    /\ proc = "serving"
    /\ rq[r].pc = "assign"
    /\ mu' = [mu EXCEPT !.writer = FALSE]
    /\ rq' = [rq EXCEPT ![r].pc = "reread",
                        ![r].res = LazyProxy(Elem(rq[r].snap, rq[r].i),
                                             <<rq[r].snap.ptr, rq[r].i>>)]
    /\ heap' = [heap EXCEPT ![rq[r].snap.ptr][rq[r].i].handler =
                    LazyProxy(Elem(rq[r].snap, rq[r].i), <<rq[r].snap.ptr, rq[r].i>>)]
    /\ UNCHANGED <<file, last, rules, ld, proc, hist, pure>>

\* r.proxy = the new proxy; s.mu.Unlock(): r is the loop's copy of the rule
ServeHTTP_part000_Unlock(r) ==
    /\ proc = "serving"
    /\ rq[r].pc = "assign"
    /\ mu' = [mu EXCEPT !.writer = FALSE]
    /\ rq' = [rq EXCEPT ![r].pc = "reread",
                        ![r].res = LazyProxy(Elem(rq[r].snap, rq[r].i),
                                             <<rq[r].snap.ptr, rq[r].i>>)]
    /\ UNCHANGED <<file, last, rules, heap, ld, proc, hist, pure>>

\* s.mu.RLock() again, and then r.proxy.ServeHTTP(w, req) under the read lock
ServeHTTP_part000_Serve(r) ==
    /\ proc = "serving"
    /\ rq[r].pc = "reread"
    /\ CanRLock(mu)
    /\ mu' = [mu EXCEPT !.readers = @ \cup {r}]
    /\ rq' = [rq EXCEPT ![r].pc = "inhandler", ![r].out = "handler"]
    /\ UNCHANGED <<file, last, rules, heap, ld, proc, hist, pure>>

\* ServeHTTP returns, after the proxy returned or after http.Error: the
\* deferred s.mu.RUnlock()
ServeHTTP_part000_Return(r) ==
    /\ proc = "serving"
    /\ rq[r].pc \in {"inhandler", "notfound"}
    /\ mu' = [mu EXCEPT !.readers = @ \ {r}]
    /\ rq' = [rq EXCEPT ![r] = IdleReq]
    /\ seen' = [seen EXCEPT ![r] = {}]
    /\ UNCHANGED <<file, last, rules, heap, ld, proc, cur, attempt, pure>>

\* ServeHTTP's entry, s.mu.RLock() and s.mu.Lock() read as in main.go
Request_part000(r) ==
    \/ ServeHTTP_main_Start(r)
    \/ ServeHTTP_main_RLock(r)
    \/ ServeHTTP_part000_Loop(r)
    \/ ServeHTTP_part000_Upgrade(r)
    \/ ServeHTTP_main_Lock(r)
    \/ ServeHTTP_part000_Unlock(r)
    \/ ServeHTTP_part000_Serve(r)
    \/ ServeHTTP_part000_Return(r)

Next_part000 ==
    \/ Loader_main
    \/ \E r \in Reqs : Request_part000(r)
    \/ WriteFile
    \/ RemoveFile

Spec_part000 == Init_main /\ [][Next_part000]_vars

\* ------------------------------------------------ part_000 with scheduling
\* sync.RWMutex as the runtime implements it, with the writers of part_000:
\* loadRules (110) and every ServeHTTP that builds a proxy (81, 88).  A
\* writer that calls Lock waits for rw.w while another writer has it; only
\* the writer that has rw.w is announced to the readers.  Unlock wakes the
\* parked readers before it releases rw.w, so they hold the read lock
\* before the next writer is announced.

\* a writer has rw.w and is announced: it waits for the readers to leave,
\* or it holds the write lock
WriterAnnounced_part000 ==
    \/ mu.writer
    \/ ld.pc = "drain"
    \/ \E q \in Reqs : rq[q].pc = "wdrain"

\* the calls of RLock that are parked, at the entry of ServeHTTP (69) and
\* after the proxy was built (84, 91)
Parked_part000 == {q \in Reqs : rq[q].pc \in {"rparked", "reparked"}}

\* a parked call of RLock when Unlock wakes it: it holds the read lock;
\* ServeHTTP goes on to range over s.rules, or to r.proxy.ServeHTTP
Woken_part000(q) ==
    IF q.pc = "rparked"
    THEN [q EXCEPT !.pc = "scan", !.h = q.host, !.snap = rules, !.i = 1]
    ELSE IF q.pc = "reparked"
    THEN [q EXCEPT !.pc = "inhandler", !.out = "handler"]
    ELSE q

\* s.mu.Lock() in loadRules: rw.w is taken and the writer announced
loadRules_part000_Announce ==
    /\ proc = "serving"
    /\ ld.pc = "lock"
    /\ ~WriterAnnounced_part000
    /\ ld' = [ld EXCEPT !.pc = "drain"]
    /\ UNCHANGED <<file, srv, proc, rq, hist, pure>>

\* s.mu.Lock() in loadRules returns: the readers have left
loadRules_part000_Lock ==
    /\ proc = "serving"
    /\ ld.pc = "drain"
    /\ mu.readers = {}
    /\ mu' = [mu EXCEPT !.writer = TRUE]
    /\ ld' = [ld EXCEPT !.pc = "parse"]
    /\ UNCHANGED <<file, last, rules, heap, proc, rq, hist, pure>>

\* the deferred s.mu.Unlock() of loadRules: the parked readers get the read
\* lock
loadRules_part000_Unlock ==
    /\ proc = "serving"
    /\ ld.pc = "unlock"
    /\ mu' = [writer |-> FALSE, readers |-> Parked_part000]
    /\ rq' = [q \in Reqs |-> Woken_part000(rq[q])]
    /\ ld' = [ld EXCEPT !.pc = "ret"]
    /\ UNCHANGED <<file, last, rules, heap, proc, hist, pure>>

Loader_part000Fair ==
    \/ loadRules_main_Stat
    \/ loadRules_part000_Announce
    \/ loadRules_part000_Lock
    \/ loadRules_main_Decode
    \/ loadRules_SetLast
    \/ loadRules_SetRules
    \/ loadRules_part000_Unlock
    \/ NewServer_main_Loop
    \/ NewServer_main_Tick

\* s.mu.RLock() at the entry of ServeHTTP while no writer is announced
ServeHTTP_part000_RLock_Free(r) ==
    /\ ~WriterAnnounced_part000
    /\ ServeHTTP_main_RLock(r)

\* s.mu.RLock() at the entry of ServeHTTP while a writer is announced: the
\* call parks
ServeHTTP_part000_RLock_Park(r) ==
    /\ proc = "serving"
    /\ rq[r].pc = "rlock"
    /\ WriterAnnounced_part000
    /\ rq' = [rq EXCEPT ![r].pc = "rparked"]
    /\ UNCHANGED <<file, srv, ld, proc, hist, pure>>

\* s.mu.Lock() in ServeHTTP: rw.w is taken and the writer announced
ServeHTTP_part000_Announce(r) ==
    /\ proc = "serving"
    /\ rq[r].pc = "wlock"
    /\ ~WriterAnnounced_part000
    /\ rq' = [rq EXCEPT ![r].pc = "wdrain"]
    /\ UNCHANGED <<file, srv, ld, proc, hist, pure>>

\* s.mu.Lock() in ServeHTTP returns: the readers have left
ServeHTTP_part000_Lock(r) ==
    /\ proc = "serving"
    /\ rq[r].pc = "wdrain"
    /\ mu.readers = {}
    /\ mu' = [mu EXCEPT !.writer = TRUE]
    /\ rq' = [rq EXCEPT ![r].pc = "assign"]
    /\ UNCHANGED <<file, last, rules, heap, ld, proc, hist, pure>>

\* r.proxy = the new proxy; s.mu.Unlock(): the parked readers get the read
\* lock
ServeHTTP_part000_Unlock_Wake(r) ==
    /\ proc = "serving"
    /\ rq[r].pc = "assign"
    /\ mu' = [writer |-> FALSE, readers |-> Parked_part000]
    /\ rq' = [q \in Reqs |->
                IF q = r
                THEN [rq[r] EXCEPT !.pc = "reread",
                                   !.res = LazyProxy(Elem(rq[r].snap, rq[r].i),
                                                     <<rq[r].snap.ptr, rq[r].i>>)]
                ELSE Woken_part000(rq[q])]
    /\ UNCHANGED <<file, last, rules, heap, ld, proc, hist, pure>>

\* s.mu.RLock() after the proxy was built while no writer is announced, and
\* r.proxy.ServeHTTP begins
ServeHTTP_part000_Serve_Free(r) ==
    /\ ~WriterAnnounced_part000
    /\ ServeHTTP_part000_Serve(r)

\* s.mu.RLock() after the proxy was built while a writer is announced: the
\* call parks
ServeHTTP_part000_Serve_Park(r) ==
    /\ proc = "serving"
    /\ rq[r].pc = "reread"
    /\ WriterAnnounced_part000
    /\ rq' = [rq EXCEPT ![r].pc = "reparked"]
    /\ UNCHANGED <<file, srv, ld, proc, hist, pure>>

\* http.Error has written the 404: ServeHTTP returns
ServeHTTP_part000_NotFoundReturn(r) ==
    /\ rq[r].pc = "notfound"
    /\ ServeHTTP_part000_Return(r)

\* the steps of ServeHTTP that are ServeHTTP's own: the calls of RLock, the
\* loop, the trade of the read lock for the write lock, the assignment, the
\* return after the 404
ServeHTTP_part000_Own(r) ==
    \/ ServeHTTP_part000_RLock_Free(r)
    \/ ServeHTTP_part000_RLock_Park(r)
    \/ ServeHTTP_part000_Loop(r)
    \/ ServeHTTP_part000_Upgrade(r)
    \/ ServeHTTP_part000_Lock(r)
    \/ ServeHTTP_part000_Unlock_Wake(r)
    \/ ServeHTTP_part000_Serve_Free(r)
    \/ ServeHTTP_part000_Serve_Park(r)
    \/ ServeHTTP_part000_NotFoundReturn(r)

Request_part000Fair(r) ==
    \/ ServeHTTP_main_Start(r)
    \/ ServeHTTP_part000_Own(r)
    \/ ServeHTTP_part000_Announce(r)
    \/ ServeHTTP_part000_Return(r)

\* the rule file is touched: the same rules under another modification time
TouchFile ==
    /\ file.status = "ok"
    /\ \E t \in 1..MaxTime :
          /\ t # file.mtime
          /\ file' = [file EXCEPT !.mtime = t]
    /\ UNCHANGED <<srv, ld, proc, rq, hist, pure>>

Next_part000Fair ==
    \/ Loader_part000Fair
    \/ \E r \in Reqs : Request_part000Fair(r)
    \/ TouchFile

\* the Server starts on a rule file that is there and decodes
Init_part000Fair ==
    /\ Init_main
    /\ file = [status |-> "ok", mtime |-> 1, content |-> OldContent]

\* The goroutine of the loader and the goroutines inside ServeHTTP's own
\* code are scheduled again and again, and a writer that waits for rw.w
\* gets it (sync.Mutex hands the mutex to a waiter it has kept waiting).
\* When r.proxy.ServeHTTP returns is not the scheduler's to decide.
Spec_part000Fair ==
    /\ Init_part000Fair
    /\ [][Next_part000Fair]_vars
    /\ WF_vars(Loader_part000Fair)
    /\ SF_vars(loadRules_part000_Announce)
    /\ \A r \in Reqs : WF_vars(ServeHTTP_part000_Own(r))
    /\ \A r \in Reqs : SF_vars(ServeHTTP_part000_Announce(r))

\* ---------------------------------------------------------------- part_005
\* part_005 (its first revision, lines 1-167): NewServer is main.go's;
\* loadRules takes the write lock before it opens the file, stores s.last
\* and s.rules, builds the proxies of s.rules and unlocks on return.
\* ServeHTTP strips the port, unlocks and serves the first matching rule's
\* proxy, or breaks out to the 404: the steps of part_002's ServeHTTP and
\* handler.

\* s.rules = rules, under the write lock taken before os.Open
loadRules_part005_SetRules ==
    /\ proc = "serving"
    /\ ld.pc = "setrules"
    /\ \/ /\ ld.w = "none"
          /\ \E w \in {"ptr", "len"} :
                /\ rules' = IF w = "ptr" THEN [rules EXCEPT !.ptr = ld.rules]
                            ELSE [rules EXCEPT !.len = LocalLen]
                /\ ld' = [ld EXCEPT !.w = w]
          /\ UNCHANGED <<cur, seen>>
       \/ /\ ld.w # "none"
          /\ rules' = [ptr |-> ld.rules, len |-> LocalLen]
          /\ ld' = [ld EXCEPT !.pc = "resolve", !.w = "none", !.i = 1]
          /\ cur' = ld.rules
          /\ seen' = [r \in Reqs |->
                        IF rq[r].pc \in {"rlock", "scan", "runlock"}
                        THEN seen[r] \cup {ld.rules} ELSE seen[r]]
    /\ UNCHANGED <<file, last, heap, mu, proc, rq, attempt, pure>>

\* the loop over s.rules that sets r.proxy, one rule a step
loadRules_part005_Loop ==
    /\ proc = "serving"
    /\ ld.pc = "resolve"
    /\ IF ld.i <= Len(heap[ld.rules])
       THEN /\ heap' = [heap EXCEPT ![ld.rules][ld.i].handler =
                            loadRulesProxy(heap[ld.rules][ld.i], <<ld.rules, ld.i>>)]
            /\ ld' = [ld EXCEPT !.i = @ + 1]
       ELSE /\ heap' = heap
            /\ ld' = [ld EXCEPT !.pc = "unlock", !.i = 0, !.rules = 0]
    /\ UNCHANGED <<file, last, rules, mu, proc, rq, hist, pure>>

Loader_part005 ==
    \/ loadRules_main_Stat
    \/ loadRules_main_Lock
    \/ loadRules_main_Decode
    \/ loadRules_SetLast
    \/ loadRules_part005_SetRules
    \/ loadRules_part005_Loop
    \/ loadRules_Unlock
    \/ NewServer_main_Loop
    \/ NewServer_main_Tick

Next_part005 ==
    \/ Loader_part005
    \/ \E r \in Reqs : Request(r)
    \/ WriteFile
    \/ RemoveFile

Spec_part005 == Init_main /\ [][Next_part005]_vars

\* ------------------------------------------------- routing specification
\* The router and the loader as functions of their inputs: a rule file that
\* decodes to pin.recs is loaded into a new Server, which then serves one
\* request whose Host header is pin.host.
RuleHosts == {<<>>, <<"a">>, <<"b", ".", "a">>}
Targets == [Forward : {"", "f"}, Serve : {"", "s"}]
RuleRecs ==
    {[Host |-> H, Forward |-> t.Forward, Serve |-> t.Serve] :
        H \in RuleHosts, t \in Targets}
RuleFiles == SeqsUpTo(RuleRecs, MaxRules)
Headers == SeqsUpTo(HeaderChars, MaxHostLen)

InitRoute ==
    /\ InitServerOff
    /\ pin \in [recs : RuleFiles, host : Headers]
    /\ pout = NoOutput

\* part_002: NewServer (loadRules, parseRules) and then ServeHTTP
Route_part002 ==
    /\ proc = "off"
    /\ pout.by = "none"
    /\ LET table == parseRules(pin.recs, 1)
       IN  pout' = [by |-> "part_002", table |-> table,
                    hit |-> Scan(table, StripPort(pin.host), 1),
                    h |-> handler(table, pin.host)]
    /\ UNCHANGED <<file, srv, ld, proc, rq, hist, pin>>

NextRoute == Route_part002

SpecRoute == InitRoute /\ [][NextRoute]_vars

\* ------------------------------ routing specification, earlier revisions
\* part_000: loadRules and then ServeHTTP
Route_part000 ==
    /\ proc = "off"
    /\ pout.by = "none"
    /\ LET table == loadRules_main(pin.recs)
       IN  pout' = [by |-> "part_000", table |-> table,
                    hit |-> Scan_part000(table, pin.host, 1),
                    h |-> ServeHTTP_part000(table, pin.host)]
    /\ UNCHANGED <<file, srv, ld, proc, rq, hist, pin>>

\* main.go: loadRules and then ServeHTTP
Route_main ==
    /\ proc = "off"
    /\ pout.by = "none"
    /\ LET table == loadRules_main(pin.recs)
       IN  pout' = [by |-> "main.go", table |-> table,
                    hit |-> Scan_main(table, pin.host, 1),
                    h |-> ServeHTTP_main(table, pin.host)]
    /\ UNCHANGED <<file, srv, ld, proc, rq, hist, pin>>

\* part_001: loadRules and then ServeHTTP
Route_part001 ==
    /\ proc = "off"
    /\ pout.by = "none"
    /\ LET table == loadRules_part001(pin.recs, 1)
       IN  pout' = [by |-> "part_001", table |-> table,
                    hit |-> Scan(table, StripPort(pin.host), 1),
                    h |-> ServeHTTP_part001(table, pin.host)]
    /\ UNCHANGED <<file, srv, ld, proc, rq, hist, pin>>

\* part_005 (its first revision): loadRules and then ServeHTTP
Route_part005 ==
    /\ proc = "off"
    /\ pout.by = "none"
    /\ LET table == loadRules_part005(pin.recs, 1)
       IN  pout' = [by |-> "part_005", table |-> table,
                    hit |-> Scan(table, StripPort(pin.host), 1),
                    h |-> ServeHTTP_part001(table, pin.host)]
    /\ UNCHANGED <<file, srv, ld, proc, rq, hist, pin>>

NextRouteHist ==
    \/ Route_part000
    \/ Route_main
    \/ Route_part001
    \/ Route_part005

SpecRouteHist == InitRoute /\ [][NextRouteHist]_vars

\* ------------------------------------------- routing specification, part_003
\* part_003: loadRules decodes the file into s.rules, and then the server
\* of main calls ServeHTTP with the request of a client whose Host header
\* is pin.host
Route_part003 ==
    /\ proc = "off"
    /\ pout.by = "none"
    /\ LET table == loadRules_main(pin.recs)
           req == ServerRequest(pin.host)
       IN  pout' = [by |-> "part_003", table |-> table,
                    hit |-> Scan_part003(table, HeaderGet(req.Header, "Host"), 1),
                    h |-> ServeHTTP_part003(table, req)]
    /\ UNCHANGED <<file, srv, ld, proc, rq, hist, pin>>

\* part_003: ServeHTTP's loop, as a function of its rules and of the string
\* h it tests them against, applied to pin.host as h
Loop_part003 ==
    /\ proc = "off"
    /\ pout.by = "none"
    /\ LET table == loadRules_main(pin.recs)
           k == Scan_part003(table, pin.host, 1)
       IN  pout' = [by |-> "Scan_part003", table |-> table, hit |-> k,
                    h |-> IF k = 0 THEN Nil ELSE LazyProxy(table[k], <<1, k>>)]
    /\ UNCHANGED <<file, srv, ld, proc, rq, hist, pin>>

NextRoute_part003 ==
    \/ Route_part003
    \/ Loop_part003

SpecRoute_part003 == InitRoute /\ [][NextRoute_part003]_vars

\* ------------------------------------------ redirect rewrite specification
\* The proxy of a forwarding rule of part_005 gets a response from upstream.
\* pin.loc is what upstream put in Location: scheme, host and path, a
\* scheme of <<>> being a path-only redirect and <<>> altogether none.
ForwardRules ==
    {[Host |-> H, Forward |-> "f", Serve |-> sv] : H \in RuleHosts, sv \in {"", "s"}}
Ports == {443, 80, 8}
LocPorts == {<<>>, <<COLON, "8">>}
LocHosts == {h \o pt : h \in SeqsUpTo(HostChars, MaxHostLen), pt \in LocPorts}
LocPaths == {<<>>, <<SLASH, "p">>}
Redirects ==
    [scheme : {HTTP, HTTPS}, host : LocHosts, path : LocPaths]
    \cup [scheme : {<<>>}, host : {<<>>}, path : LocPaths]
UpstreamURLs ==
    [scheme : {HTTP}, opaque : {<<>>}, host : {<<"b">>, <<"a", COLON, "8">>},
     path : {<<>>, <<SLASH, "a", SLASH, "b">>}]

\* the Location header upstream writes for the redirect loc
LocationHeader(loc) ==
    IF loc.scheme = <<>> THEN loc.path
    ELSE loc.scheme \o <<COLON, SLASH, SLASH>> \o loc.host \o loc.path

\* a Location header url.Parse rejects
BadLocation == <<COLON>>

\* Location headers of other forms: rejected ones (":" and a first path
\* segment with a colon), opaque URLs, a path after "///", paths with dot
\* segments, a relative path
OddLocations ==
    {BadLocation,
     <<"8", COLON, "a">>,
     HTTP \o <<COLON, "b">>,
     <<"a", COLON, "8">>,
     <<SLASH, SLASH, SLASH, "p">>,
     <<SLASH, "p", SLASH, DOT, DOT, SLASH, "b">>,
     HTTP \o <<COLON, SLASH, SLASH, "b", SLASH, DOT, SLASH, "p">>,
     <<"p">>,
     <<DOT, DOT>>}

\* pin.odd is the Location header when it is not empty, and then pin.loc is
\* not used
InitRedirect ==
    /\ InitServerOff
    /\ pin \in [rule : ForwardRules, port : Ports, loc : Redirects,
                odd : OddLocations \cup {<<>>}, req : UpstreamURLs]
    /\ pin.odd # <<>> => pin.loc = [scheme |-> <<>>, host |-> <<>>, path |-> <<>>]
    /\ pout = NoOutput

\* part_005: the ReverseProxy calls ModifyResponse on the upstream response
Respond_part005 ==
    /\ proc = "off"
    /\ pout.by = "none"
    /\ LET res == [location |-> IF pin.odd # <<>> THEN pin.odd
                                ELSE LocationHeader(pin.loc),
                   req |-> pin.req]
       IN  pout' = [by |-> "ModifyResponse_part005", table |-> <<>>, hit |-> 0,
                    h |-> Nil, sent |-> res,
                    res |-> ModifyResponse(Decoded(pin.rule), pin.port, res)]
    /\ UNCHANGED <<file, srv, ld, proc, rq, hist, pin>>

NextRedirect == Respond_part005

SpecRedirect == InitRedirect /\ [][NextRedirect]_vars

\* ------------------------------------------------ the locking of one call
\* The calls a function makes on s.mu, in order, along the path its input
\* takes, ending with its return; a deferred call comes before the return.
Upgrade == <<"RUnlock", "Lock", "Unlock", "RLock">>

\* a main.go ServeHTTP whose break leaves the function
ServeHTTPLocks_mainReturnOnBreak(table, host) ==
    LET k == Scan(table, host, 1)
    IN  <<"RLock">>
        \o (IF k # 0 /\ LazyProxy(table[k], <<1, k>>) # Nil
            THEN <<"RUnlock">> \o (IF table[k].handler = Nil
                                   THEN <<"Lock", "Unlock">> ELSE <<>>)
            ELSE IF k # 0 THEN <<>>
            ELSE <<"RUnlock">>)
        \o <<"return">>

\* part_000, ServeHTTP's loop from rule i on
RECURSIVE LoopLocks_part000(_, _, _)
LoopLocks_part000(table, host, i) ==
    IF i > Len(table) THEN <<>>
    ELSE IF ~Match(host, table[i]) THEN LoopLocks_part000(table, host, i + 1)
    ELSE LET r == table[i]
             forward == r.Forward # "" /\ r.handler = Nil
             p1 == IF forward
                   THEN [kind |-> "ReverseProxy", arg |-> r.Forward, addr |-> <<1, i>>]
                   ELSE r.handler
             static == r.Serve # "" /\ p1 = Nil
         IN  (IF forward THEN Upgrade ELSE <<>>)
             \o (IF static THEN Upgrade ELSE <<>>)
             \o (IF LazyProxy(r, <<1, i>>) # Nil THEN <<>>
                 ELSE LoopLocks_part000(table, host, i + 1))

\* part_000, ServeHTTP: s.mu.RLock(), defer s.mu.RUnlock(), the loop
ServeHTTPLocks_part000(table, host) ==
    <<"RLock">> \o LoopLocks_part000(table, host, 1) \o <<"RUnlock", "return">>

\* main.go, ServeHTTP: the first matching rule serves after RUnlock and,
\* its proxy having been nil, Lock and Unlock; a nil proxy breaks
ServeHTTPLocks_main(table, host) ==
    LET k == Scan(table, host, 1)
    IN  <<"RLock">>
        \o (IF k # 0 /\ LazyProxy(table[k], <<1, k>>) # Nil
            THEN <<"RUnlock">> \o (IF table[k].handler = Nil
                                   THEN <<"Lock", "Unlock">> ELSE <<>>)
            ELSE <<"RUnlock">>)
        \o <<"return">>

\* part_001, ServeHTTP: the first matching rule serves after RUnlock; a nil
\* proxy breaks, and RUnlock follows the loop
ServeHTTPLocks_part001(table, host) ==
    LET k == Scan(table, StripPort(host), 1)
    IN  <<"RLock">>
        \o (IF k # 0 /\ table[k].handler # Nil THEN <<"RUnlock">> ELSE <<"RUnlock">>)
        \o <<"return">>

\* part_002, handler: s.mu.RLock(), defer s.mu.RUnlock()
handlerLocks(table, host) == <<"RLock", "RUnlock", "return">>

\* part_002, hostPolicy: s.mu.RLock(), defer s.mu.RUnlock()
hostPolicyLocks(table, host) == <<"RLock", "RUnlock", "return">>

\* part_002, loadRules, for the file f, s.last = lst and s.rules = rls; gone
\* says that os.Open fails
loadRulesLocks(f, lst, rls, gone) ==
    IF f.status = "missing" THEN <<"return">>
    ELSE IF NoChange(f.mtime, lst, rls) THEN <<"return">>
    ELSE IF gone \/ f.content = Malformed THEN <<"return">>
    ELSE <<"Lock", "Unlock", "return">>

\* main.go and part_000, loadRules: s.mu.Lock() and defer s.mu.Unlock()
\* before os.Open
loadRulesLocks_main(f, lst, rls, gone) ==
    IF f.status = "missing" THEN <<"return">>
    ELSE IF NoChangeBefore(f.mtime, lst, rls) THEN <<"return">>
    ELSE <<"Lock", "Unlock", "return">>

\* One call with its input: a request or a host name on the table of a rule
\* file, or a load of a file.
NoLoad == [file |-> MissingFile, last |-> 0, loaded |-> FALSE, gone |-> FALSE]
LoadCases == [file : FileStates, last : 0..MaxTime, loaded : BOOLEAN, gone : BOOLEAN]
LoadedSlice(c) == [ptr |-> IF c.loaded THEN 1 ELSE 0, len |-> 0]

InitLocks ==
    /\ InitServerOff
    /\ \/ pin \in [recs : RuleFiles, host : Headers, load : {NoLoad}, call : {"serve"}]
       \/ pin \in [recs : {<<>>}, host : {<<>>}, load : LoadCases, call : {"load"}]
    /\ pout = NoOutput

LocksOf(by, table, locks) ==
    /\ proc = "off"
    /\ pout.by = "none"
    /\ pout' = [by |-> by, table |-> table, hit |-> 0, h |-> Nil, locks |-> locks]
    /\ UNCHANGED <<file, srv, ld, proc, rq, hist, pin>>

Locks_part000 ==
    /\ pin.call = "serve"
    /\ LET table == loadRules_main(pin.recs)
       IN  LocksOf("ServeHTTP_part000", table, ServeHTTPLocks_part000(table, pin.host))

Locks_main ==
    /\ pin.call = "serve"
    /\ LET table == loadRules_main(pin.recs)
       IN  LocksOf("ServeHTTP_main", table, ServeHTTPLocks_main(table, pin.host))

Locks_part001 ==
    /\ pin.call = "serve"
    /\ LET table == loadRules_part001(pin.recs, 1)
       IN  LocksOf("ServeHTTP_part001", table, ServeHTTPLocks_part001(table, pin.host))

Locks_handler ==
    /\ pin.call = "serve"
    /\ LET table == parseRules(pin.recs, 1)
       IN  LocksOf("handler", table, handlerLocks(table, pin.host))

Locks_hostPolicy ==
    /\ pin.call = "serve"
    /\ LET table == parseRules(pin.recs, 1)
       IN  LocksOf("hostPolicy", table, hostPolicyLocks(table, pin.host))

Locks_loadRules ==
    /\ pin.call = "load"
    /\ LocksOf("loadRules", <<>>,
               loadRulesLocks(pin.load.file, pin.load.last, LoadedSlice(pin.load),
                              pin.load.gone))

Locks_loadRules_main ==
    /\ pin.call = "load"
    /\ LocksOf("loadRules_main", <<>>,
               loadRulesLocks_main(pin.load.file, pin.load.last, LoadedSlice(pin.load),
                                   pin.load.gone))

NextLocks ==
    \/ Locks_part000
    \/ Locks_main
    \/ Locks_part001
    \/ Locks_handler
    \/ Locks_hostPolicy
    \/ Locks_loadRules
    \/ Locks_loadRules_main

SpecLocks == InitLocks /\ [][NextLocks]_vars

\* ------------------------------------------------ ServeHTTP specification
\* A rule file that decodes to pin.recs is loaded into a new Server, and one
\* request with Host header pin.host is served.
\* part_002: NewServer and then ServeHTTP
Serve_part002 ==
    /\ proc = "off"
    /\ pout.by = "none"
    /\ LET table == parseRules(pin.recs, 1)
       IN  pout' = [by |-> "ServeHTTP_part002", table |-> table,
                    hit |-> Scan(table, StripPort(pin.host), 1),
                    h |-> handler(table, pin.host),
                    w |-> ServeHTTP(table, pin.host)]
    /\ UNCHANGED <<file, srv, ld, proc, rq, hist, pin>>

NextServe == Serve_part002

SpecServe == InitRoute /\ [][NextServe]_vars

\* ------------------------------------------------ hostPolicy specification
\* A rule file that decodes to pin.recs is loaded into a new Server, and
\* autocert asks hostPolicy about the host name pin.host.
NameChars == {"w", DOT, "a"}
Names == SeqsUpTo(NameChars, MaxNameLen)

InitPolicy ==
    /\ InitServerOff
    /\ pin \in [recs : RuleFiles, host : Names]
    /\ pout = NoOutput

\* part_002: NewServer and then hostPolicy
Policy_part002 ==
    /\ proc = "off"
    /\ pout.by = "none"
    /\ LET table == parseRules(pin.recs, 1)
       IN  pout' = [by |-> "hostPolicy_part002", table |-> table, hit |-> 0,
                    h |-> Nil, err |-> hostPolicy(table, pin.host)]
    /\ UNCHANGED <<file, srv, ld, proc, rq, hist, pin>>

\* part_005, second revision: NewServer and then hostPolicy
Policy_part005 ==
    /\ proc = "off"
    /\ pout.by = "none"
    /\ LET table == parseRules(pin.recs, 1)
       IN  pout' = [by |-> "hostPolicy_part005", table |-> table, hit |-> 0,
                    h |-> Nil, err |-> hostPolicy_part005(table, pin.host)]
    /\ UNCHANGED <<file, srv, ld, proc, rq, hist, pin>>

NextPolicy ==
    \/ Policy_part002
    \/ Policy_part005

SpecPolicy == InitPolicy /\ [][NextPolicy]_vars

\* ================================================================== claims
\* The statements below are written from the specification's words, with
\* their own definitions of "matches" and "first match", and are compared
\* against what the actions above computed.

\* h carries no port
PortFree(h) == \A i \in 1..Len(h) : h[i] # COLON

\* h = H, or h = x + "." + H for some string x (x is then a prefix of h)
DotSuffixMatch(h, H) ==
    \/ h = H
    \/ \E k \in 0..Len(h) : h = SubSeq(h, 1, k) \o <<DOT>> \o H

\* the indices of the rules of a table that match the port-free host h
Matching(table, h) == {i \in 1..Len(table) : DotSuffixMatch(h, table[i].Host)}

\* the least element of a non-empty set of numbers
Least(S) == CHOOSE i \in S : \A j \in S : i <= j

\* the table g as published: table 0 is the nil table
Published(g) == IF g = 0 THEN <<>> ELSE heap[g]

\* the handler an eager loader resolves for rule i of table g
ResolvedFor(r, g, i) ==
    IF r.Forward # "" THEN [kind |-> "ReverseProxy", arg |-> r.Forward, addr |-> <<g, i>>]
    ELSE IF r.Serve # "" THEN [kind |-> "FileServer", arg |-> r.Serve, addr |-> <<g, i>>]
    ELSE Nil

\* what routing the port-free host h over the whole published table g gives
FirstMatchOver(g, h) ==
    LET T == Published(g)
        M == Matching(T, h)
    IN  IF M = {} THEN Nil ELSE ResolvedFor(T[Least(M)], g, Least(M))

\* C1: for a port-free request host, a rule that no earlier rule shadows is
\* the one the router matches iff the host equals the rule's Host or ends
\* with "." + Host; when no rule matches so, the result is not-found.
C1_MatchIsDotSuffix ==
    (pout.by = "part_002" /\ PortFree(pin.host)) =>
        /\ \A i \in 1..Len(pout.table) :
              (\A j \in 1..(i - 1) : ~DotSuffixMatch(pin.host, pout.table[j].Host))
                  => (pout.hit = i <=> DotSuffixMatch(pin.host, pout.table[i].Host))
        /\ Matching(pout.table, pin.host) = {} => (pout.hit = 0 /\ pout.h = Nil)

\* C1 witness: a host x + "." + H with a non-empty x was routed to the rule
\* for H, which forwards
C1_Witness ==
    /\ pout.by = "part_002"
    /\ PortFree(pin.host)
    /\ pout.hit = 1
    /\ pout.table[1].Host # <<>>
    /\ Len(pin.host) >= Len(pout.table[1].Host) + 2
    /\ pout.h.kind = "ReverseProxy"

\* C6: when two or more rules match the request host, the router returns the
\* handler of the matching rule with the smallest index.
C6_FirstMatchWins ==
    pout.by = "part_002" =>
        LET M == Matching(pout.table, StripPort(pin.host))
        IN  Cardinality(M) >= 2 =>
                /\ pout.hit = Least(M)
                /\ pout.h = pout.table[Least(M)].handler
                /\ \A j \in M \ {Least(M)} :
                      pout.table[j].handler # Nil => pout.h # pout.table[j].handler

\* C6 witness: two rules with different handlers both matched the host
C6_Witness ==
    /\ pout.by = "part_002"
    /\ Len(pout.table) = 2
    /\ Matching(pout.table, StripPort(pin.host)) = {1, 2}
    /\ pout.table[1].handler.kind = "FileServer"
    /\ pout.table[2].handler.kind = "ReverseProxy"
    /\ pout.h = pout.table[1].handler

\* C2: a handler call works on one whole published table that was current
\* at some instant of the call, every handler of it resolved, and returns
\* the first-match result over that table.
C2_OneConsistentTable ==
    \A r \in Reqs :
        rq[r].pc \in {"scan", "runlock"} =>
            \E g \in seen[r] :
                /\ rq[r].snap = [ptr |-> g, len |-> Len(Published(g))]
                /\ \A i \in 1..Len(Published(g)) :
                      Published(g)[i].handler = ResolvedFor(Published(g)[i], g, i)
                /\ rq[r].pc = "runlock" => rq[r].res = FirstMatchOver(g, rq[r].host)

\* C2 witness: a call during which a new table was published has its result
C2_Witness ==
    \E r \in Reqs :
        /\ rq[r].pc = "runlock"
        /\ Cardinality(seen[r]) = 2
        /\ rq[r].res # Nil
        /\ mu.readers = Reqs

\* a load attempt on a Server that had a table has failed
LoadFailed ==
    /\ proc = "serving"
    /\ ld.pc \in {"ret", "sleep"}
    /\ ld.err # ""
    /\ attempt.rules.ptr # 0

\* C3: after a failed load attempt on a Server that had a table, the table
\* and the load time are what they were when the attempt began, and the
\* requests being routed work on that table and get its result.
C3_FailedLoadKeepsTable ==
    LoadFailed =>
        /\ last = attempt.last
        /\ rules = attempt.rules
        /\ cur = attempt.rules.ptr
        /\ \A r \in Reqs :
              /\ rq[r].pc \in {"scan", "runlock"} => rq[r].snap = attempt.rules
              /\ rq[r].pc = "runlock" =>
                    rq[r].res = handler(Published(attempt.rules.ptr), rq[r].host)

\* C3 witness: the file no longer decodes, the attempt failed, and a request
\* routed meanwhile has a handler
C3_Witness ==
    /\ LoadFailed
    /\ ld.err = "decode"
    /\ \E r \in Reqs : rq[r].pc = "runlock" /\ rq[r].res # Nil

\* a rule with neither Forward nor Serve
Inert(r) == r.Forward = "" /\ r.Serve = ""

\* every rule of the table has a Host, as the rule file format asks
HostsGiven(table) == \A i \in 1..Len(table) : table[i].Host # <<>>

\* C7: if the first rule that matches the request host is inert, the result
\* is not-found, whatever rules follow.  Stated for part_000's ServeHTTP, whose
\* loop goes on past a matching rule with a nil proxy; part_002's handler
\* returns at the first match.
C7_InertMatchStops_part000 ==
    (pout.by = "part_000" /\ PortFree(pin.host) /\ HostsGiven(pout.table)) =>
        LET M == Matching(pout.table, pin.host)
        IN  (M # {} /\ Inert(pout.table[Least(M)])) => pout.h = Nil

\* the part of a Host header before its port: the port-free x with
\* header = x + ":" + p
BeforeColon(header) ==
    CHOOSE x \in {SubSeq(header, 1, k) : k \in 0..Len(header)} :
        /\ PortFree(x)
        /\ Len(x) < Len(header)
        /\ header[Len(x) + 1] = COLON

\* C8: a Host header h + ":" + p is routed as h is.  Stated for main.go's
\* ServeHTTP, which compares req.Host as it is; part_002's handler strips
\* the port.
C8_PortIgnored_main ==
    (pout.by = "main.go" /\ ~PortFree(pin.host) /\ HostsGiven(pout.table)) =>
        pout.h = ServeHTTP_main(pout.table, BeforeColon(pin.host))

\* C9: a rule with Forward set resolves to the forwarding handler for
\* Forward, also when Serve is set too; a rule with only Serve set resolves
\* to the static handler; a rule with neither resolves to nothing.  Stated
\* for the loadRules of part_001 and part_005, where Serve overrides
\* Forward; part_002's makeHandler returns at Forward.
C9_ForwardBeforeServe_part001 ==
    (pout.by \in {"part_001", "part_005"} /\ HostsGiven(pout.table)) =>
        \A i \in 1..Len(pout.table) :
            LET r == pout.table[i]
            IN  /\ r.Forward # "" =>
                      (r.handler.kind = "ReverseProxy" /\ r.handler.arg = r.Forward)
                /\ (r.Forward = "" /\ r.Serve # "") =>
                      (r.handler.kind = "FileServer" /\ r.handler.arg = r.Serve)
                /\ Inert(r) => r.handler = Nil

\* the load attempt found a table and a file not modified after the
\* recorded load time
UnchangedFile ==
    /\ attempt.rules.ptr # 0
    /\ attempt.mtime >= 1
    /\ attempt.mtime <= attempt.last

\* C10: a load that finds a table and a file whose modification time is not
\* after the recorded load time returns nil without parsing, and leaves the
\* table and the load time as they were.  Stated for part_004's loadRules,
\* which skips only a file older than the load time; part_002's loadRules
\* skips an equal time too.
C10_UnchangedFileSkips_part004 ==
    UnchangedFile =>
        /\ ld.pc \in {"stat", "ret", "sleep"}
        /\ ld.err = ""
        /\ Len(heap) = attempt.allocs
        /\ rules = attempt.rules
        /\ last = attempt.last

\* C4: no request is being served before the first load has completed
\* successfully.  Stated for main.go's NewServer, which returns the Server
\* before its goroutine has loaded anything; part_002's NewServer loads
\* first.
C4_NoServingBeforeFirstLoad_main ==
    \A r \in Reqs : rq[r].pc # "idle" => (cur # 0 /\ rules.ptr # 0)

\* C5: a load that fails on a Server that has a table does not end the
\* process.  Stated for main.go's NewServer, whose goroutine calls
\* log.Fatal on any load error; part_002's refreshRules logs and sleeps.
C5_RefreshErrorNotFatal_main ==
    attempt.rules.ptr # 0 => proc # "exited"

\* C11: a request whose handler is executing holds the table lock neither
\* for reading nor for writing (the write lock is held by a request only in
\* its "assign" step).  Stated for part_000's ServeHTTP, whose deferred
\* RUnlock runs after the proxy has returned; part_002's handler unlocks
\* before ServeHTTP calls the handler.
C11_NoLockInHandler_part000 ==
    \A r \in Reqs : rq[r].pc = "inhandler" => r \notin mu.readers

\* C12: the loader holds the write lock only while it assigns the load time
\* and the table: never during stat, open, decode or handler resolution.
\* Stated for part_005's loadRules, which locks before os.Open; part_002's
\* loadRules locks after parseRules has returned.
C12_LockOnlyToPublish_part005 ==
    /\ mu.writer => ld.pc \in {"setlast", "setrules", "unlock"}
    /\ ld.pc \in {"stat", "parse", "resolve"} => ~mu.writer

\* the host name is some rule's Host, or "www." + some rule's Host
Authorized(table, name) ==
    \E i \in 1..Len(table) :
        \/ name = table[i].Host
        \/ /\ Len(name) = Len(table[i].Host) + 4
           /\ SubSeq(name, 1, 4) = <<"w", "w", "w", ".">>
           /\ SubSeq(name, 5, Len(name)) = table[i].Host

\* what hostPolicy is asked to return for a name
PolicyAsked(table, name) ==
    IF Authorized(table, name) THEN "allowed" ELSE "unrecognized host"

\* what hostPolicy returned
PolicyGiven(err) == IF err.msg = "" THEN "allowed" ELSE err.msg

\* C13: hostPolicy allows a name iff it is some rule's Host or "www." + a
\* rule's Host, and denies every other name as an unrecognized host.  Stated
\* for part_005's hostPolicy (382-394), which allows every name that ends
\* with a rule's Host; part_002's hostPolicy compares with "www." + Host.
C13_AuthorizeExactOrWww_part005 ==
    (pout.by = "hostPolicy_part005" /\ HostsGiven(pout.table)) =>
        PolicyGiven(pout.err) = PolicyAsked(pout.table, pin.host)

\* the handler the loader built for the new rule of the second rule file
NewRuleHandler == [kind |-> "FileServer", arg |-> "s", addr |-> <<NewContent, 1>>]

\* the request is back from the loop of handler, for the new host
RoutedNewHost(r) == rq[r].pc = "runlock" /\ rq[r].host = NewHost

\* C14, as the claim words it: with the rule file replaced by one that adds
\* a rule for host b, every call for b started before the next tick returns
\* not-found and every call for b started after that tick's load returns the
\* new rule's handler.
C14_BeforeTickNotFoundAfterLoadFound ==
    file.content = NewContent =>
        /\ RoutedNewHost(EarlyReq) => rq[EarlyReq].res = Nil
        /\ RoutedNewHost(LateReq) => rq[LateReq].res = NewRuleHandler

\* C14, amended: a call for b that reads the table before the load of the
\* next tick publishes returns not-found, also when it started before the
\* tick; one that reads it after the publish returns the new rule's handler;
\* and when the replaced file is newer than the loaded one, every call
\* started after that load has returned gets the new rule's handler.
C14_ReplacedFileRoutesAfterPublish ==
    file.content = NewContent =>
        /\ \A r \in Reqs :
              RoutedNewHost(r) =>
                  /\ rq[r].snap.ptr = OldContent => rq[r].res = Nil
                  /\ rq[r].snap.ptr = NewContent => rq[r].res = NewRuleHandler
        /\ (Newer /\ SawReplaced /\ ld.pc \in {"ret", "sleep"}) =>
              /\ cur = NewContent
              /\ rules = [ptr |-> NewContent, len |-> Len(Files[NewContent])]
        /\ (Newer /\ RoutedNewHost(LateReq)) => rq[LateReq].res = NewRuleHandler

\* C14 witness: a call for b that started after the load of the newer file
\* has its handler, the new rule's
C14_Witness ==
    /\ file.content = NewContent
    /\ Newer
    /\ RoutedNewHost(LateReq)
    /\ rq[LateReq].res = NewRuleHandler
    /\ rq[LateReq].snap.ptr = NewContent

\* the request's handler is executing
InHandler(r) == rq[r].pc = "inhandler"

\* the step publishes: it changes the table, the current table or the load time
Publishes == rules' # rules \/ cur' # cur \/ last' # last

\* a publish does not wait for handlers: with every request either idle or
\* in its handler, nobody holds the lock the loader asks for
LockFreeForLoader ==
    (ld.pc = "lock" /\ \A r \in Reqs : rq[r].pc \in {"idle", "inhandler"})
        => (mu.readers = {} /\ ~mu.writer)

\* a publish leaves every executing handler as it is: same handler, still
\* executing
PublishKeepsHandlers ==
    Publishes => \A r \in Reqs : InHandler(r) => rq'[r] = rq[r]

\* C15: a request that got its handler from one table goes on executing
\* that handler while another table is published; publishing neither waits
\* for executing handlers nor changes what they execute.
C15_PublishSparesInFlight ==
    /\ [](\A r \in Reqs : InHandler(r) => (rq[r].res # Nil /\ r \notin mu.readers))
    /\ []LockFreeForLoader
    /\ [][PublishKeepsHandlers]_vars

\* C15 witness: a handler of the first table is executing for a host that
\* the current table, published meanwhile, has no rule for
C15_Witness ==
    \E r \in Reqs :
        /\ InHandler(r)
        /\ rq[r].res.addr[1] # cur
        /\ rq[r].res.addr[1] = 1
        /\ handler(Published(cur), rq[r].host) = Nil
        /\ ld.pc = "unlock"

\* the fields of a rule that come from the file
FileFields(r) == [Host |-> r.Host, Forward |-> r.Forward, Serve |-> r.Serve]

\* the rules of a table as records of a file, in order
AsRecords(table) == [i \in 1..Len(table) |-> FileFields(table[i])]

\* the slice header of the whole table g
WholeTable(g) == [ptr |-> g, len |-> Len(heap[g])]

\* the load attempt parsed a file and returned nil
LoadedNewTable ==
    /\ ld.pc \in {"ret", "sleep"}
    /\ ld.err = ""
    /\ Len(heap) > attempt.allocs

\* after a successful load that was not skipped, the table is the whole of
\* the table just decoded and the load time is the time os.Stat returned at
\* the beginning of that load.  parseRules opens the file after os.Stat has
\* returned, so this is the time of the decoded file only when the file was
\* not rewritten in between: see DecodedFileHasTheTime.
PublishedWhatWasLoaded ==
    LoadedNewTable =>
        /\ rules = WholeTable(Len(heap))
        /\ cur = Len(heap)
        /\ last = attempt.mtime

\* whoever can hold the read lock sees the table and the load time of the
\* same load: both as they were when the attempt began, or both new
TableAndTimeTogether ==
    ~mu.writer =>
        \/ last = attempt.last /\ rules = attempt.rules
        \/ Len(heap) > attempt.allocs /\ last = attempt.mtime
           /\ rules = WholeTable(Len(heap))

\* the step in which parseRules decodes the file allocates a table that is
\* the file's records, in file order
DecodesTheFile ==
    (ld.pc = "parse" /\ ld'.pc = "resolve") =>
        /\ Len(heap') = Len(heap) + 1
        /\ ld'.rules = Len(heap')
        /\ AsRecords(heap'[Len(heap')]) = Files[file.content]

\* no step drops, adds, reorders or rewrites the records of a table
KeepsRecords ==
    \A g \in 1..Len(heap) :
        Len(heap') >= g /\ AsRecords(heap'[g]) = AsRecords(heap[g])

\* the step in which os.Stat succeeds and the file is not skipped takes the
\* time the load will record from the file as it is then
StatsTheFile ==
    (ld.pc = "stat" /\ ld'.pc = "parse") => ld'.mtime = file.mtime

\* the file parseRules decodes has the modification time the load will
\* record
DecodedFileHasTheTime ==
    (ld.pc = "parse" /\ ld'.pc = "resolve") => ld.mtime = file.mtime

\* between os.Stat and the decoding, the time the load will record stays the
\* file's time in every step that leaves the file alone
OnlyARewriteParts ==
    (ld.pc = "parse" /\ ld.mtime = file.mtime /\ file' = file
        /\ ld'.pc \in {"parse", "resolve"}) => ld'.mtime = file'.mtime

\* C16 as stated: after every successful load that was not skipped, the
\* current table is exactly the rules decoded from the file, in file order
\* and nothing else, the load time is the modification time of the file
\* that was decoded, and readers see the two change together.
C16_TableAndTimeOfTheFile ==
    /\ []PublishedWhatWasLoaded
    /\ []TableAndTimeTogether
    /\ [][DecodesTheFile /\ KeepsRecords /\ StatsTheFile]_vars
    /\ [][DecodedFileHasTheTime]_vars

\* C16, amended: after every successful load that was not skipped, the
\* current table is exactly the rules decoded from the file, in file order
\* and nothing else, and readers see the table and the load time change
\* together; the load time is the modification time os.Stat read from the
\* file at the beginning of the load, which is the time of the file that
\* parseRules decodes unless the file is rewritten between os.Stat and the
\* decoding: then the table is the later file's rules under the earlier
\* file's time.
C16_TableIsTheFile ==
    /\ []PublishedWhatWasLoaded
    /\ []TableAndTimeTogether
    /\ [][DecodesTheFile /\ KeepsRecords /\ StatsTheFile]_vars
    /\ [][OnlyARewriteParts]_vars

\* C16 witness: a second load has replaced a table by that of another file
C16_Witness ==
    /\ LoadedNewTable
    /\ proc = "serving"
    /\ attempt.rules.ptr = 1
    /\ cur = 2
    /\ AsRecords(heap[2]) # AsRecords(heap[1])
    /\ last = attempt.mtime
    /\ last > attempt.last

\* the rules of the table whose match accepts the normalized host h
Matches(table, h) == {i \in 1..Len(table) : Match(h, table[i])}

\* no rule matches, or the first rule that matches is inert
RoutingMiss(table, h) ==
    \/ Matches(table, h) = {}
    \/ Inert(table[Least(Matches(table, h))])

\* the handlers of the table
HandlersOf(table) == {table[i].handler : i \in 1..Len(table)} \ {Nil}

\* C17: a ServeHTTP call does exactly one thing: it calls one handler of the
\* table once, or it writes the 404 "Not found." response; it writes the 404
\* exactly when no rule matches the normalized host or the first matching
\* rule is inert.
C17_OneOutcome ==
    pout.by = "ServeHTTP_part002" =>
        /\ Len(pout.w) = 1
        /\ \/ pout.w[1] = NotFound
           \/ pout.w[1].op = "h.ServeHTTP" /\ pout.w[1].h \in HandlersOf(pout.table)
        /\ (pout.w[1] = NotFound) <=> RoutingMiss(pout.table, StripPort(pin.host))
        /\ NotFound.code = 404 /\ NotFound.body = "Not found."

\* C17 witness: the first matching rule is inert and a later rule that matches
\* has a handler; the request, which names a port, gets the 404
C17_Witness ==
    /\ pout.by = "ServeHTTP_part002"
    /\ Len(pin.host) > Len(StripPort(pin.host))
    /\ Cardinality(Matches(pout.table, StripPort(pin.host))) = 2
    /\ Inert(pout.table[1])
    /\ ~Inert(pout.table[2])
    /\ pout.w = <<NotFound>>

\* the tables that were loaded from the file as it was before it was replaced
LastValid == {g \in 1..Len(heap) : AsRecords(heap[g]) = Files[OldContent]}

\* the file has been replaced with content that cannot be decoded
Undecodable == file.status = "ok" /\ file.content = Malformed

\* the load of the tick after the replacement has returned to refreshRules,
\* which has gone to sleep again
NextTickDone == SawReplaced /\ ld.pc = "sleep"

\* the server still has the table and load time of the last valid load, and
\* every request that has chosen its handler chose it from that table
RoutesOnLastValid ==
    /\ Len(heap) = 1
    /\ LastValid = {cur}
    /\ rules = WholeTable(cur)
    /\ last = MaxTime
    /\ \A r \in Reqs :
          rq[r].pc \in {"runlock", "dispatch", "inhandler", "notfound"} =>
              rq[r].res = handler(heap[cur], rq[r].host)

\* C18 as stated: whenever the rule file is replaced with undecodable
\* content, the load of the next tick returns an error that refreshRules
\* logs, and requests go on being routed on the last valid table.
C18_UndecodableIsLogged ==
    Undecodable =>
        /\ RoutesOnLastValid
        /\ NextTickDone => (ld.err # "" /\ ld.logged)

\* C18, amended: the error is returned and logged when the undecodable file's
\* modification time is after the recorded load time; whatever its time,
\* requests go on being routed on the last valid table.
C18_NewerUndecodableIsLogged ==
    Undecodable =>
        /\ RoutesOnLastValid
        /\ (NextTickDone /\ Newer) => (ld.err = "decode" /\ ld.logged)

\* C18 witness: the newer undecodable file has been seen by a tick and the
\* error logged, and a request that arrived afterwards runs a handler of
\* the last valid table
C18_Witness ==
    /\ Undecodable
    /\ Newer
    /\ NextTickDone
    /\ ld.err = "decode"
    /\ ld.logged
    /\ rq[LateReq].pc = "inhandler"
    /\ rq[LateReq].res = heap[cur][1].handler
    /\ rq[LateReq].res # Nil

\* C19: the table parseRules builds has the length of the decoded array and
\* rule i of the table is record i of the file; a record with neither
\* Forward nor Serve is kept, in its place, with a nil handler.
C19_LoaderKeepsEveryRule ==
    pout.by = "part_002" =>
        /\ Len(pout.table) = Len(pin.recs)
        /\ \A i \in 1..Len(pin.recs) :
              /\ FileFields(pout.table[i]) = pin.recs[i]
              /\ Inert(pin.recs[i]) => pout.table[i].handler = Nil

\* C19 witness: a file whose first record is inert and whose second is not
C19_Witness ==
    /\ pout.by = "part_002"
    /\ Len(pin.recs) = MaxRules
    /\ Inert(pin.recs[1])
    /\ ~Inert(pin.recs[2])
    /\ pin.recs[1].Host # pin.recs[2].Host
    /\ Len(pout.table) = MaxRules
    /\ pout.table[1].handler = Nil
    /\ pout.table[2].handler # Nil

\* the handlers that loads have stored in the rules of their tables
LoadedHandlers ==
    UNION {{heap[g][i].handler : i \in 1..Len(heap[g])} : g \in 1..Len(heap)}
        \ {Nil}

\* C20: request handling builds no handler: no request takes the write lock,
\* and the handler a request runs is one a load stored in a rule of a
\* table.  Stated for part_000's ServeHTTP, which builds the proxy of the
\* matching rule under the write lock on every request; part_002's handler
\* returns the handler parseRules stored.
C20_HandlersBuiltAtLoad_part000 ==
    \A r \in Reqs :
        /\ rq[r].pc \notin {"wlock", "assign"}
        /\ rq[r].pc = "inhandler" => rq[r].res \in LoadedHandlers

\* the request has built a handler for the rule its loop is at
BuiltHandler(r) ==
    /\ rq[r].pc \in {"reread", "inhandler"}
    /\ rq[r].res \notin {Nil, Wild}

\* a step of a request
RequestStep == \E r \in Reqs : rq'[r] # rq[r]

\* C21 as stated: in the lazy-build ServeHTTP the handler a request builds
\* is stored in the shared table's rule, where other requests find it.
C21_LazyBuildStoresInTable ==
    \A r \in Reqs :
        BuiltHandler(r) => Elem(rq[r].snap, rq[r].i).handler = rq[r].res

\* C21, amended: in part_000's lazy-build ServeHTTP the handler a request
\* builds is stored in the loop's copy of the rule: no step of a request
\* changes a table, s.rules or s.last, the rules of every table keep their
\* nil proxy, and the handler a request builds is its own.
C21_LazyBuildLeavesTableAlone ==
    /\ [](LoadedHandlers = {})
    /\ [](\A r \in Reqs :
            BuiltHandler(r) =>
                /\ Elem(rq[r].snap, rq[r].i).handler = Nil
                /\ rq[r].res = LazyProxy(Elem(rq[r].snap, rq[r].i),
                                         <<rq[r].snap.ptr, rq[r].i>>))
    /\ [][RequestStep => UNCHANGED <<heap, rules, last>>]_vars

\* C21 witness: one request runs the handler it built for a rule while the
\* other is at the same rule of the same table, whose proxy is still nil
C21_Witness ==
    /\ BuiltHandler("r1")
    /\ rq["r1"].pc = "inhandler"
    /\ rq["r2"].pc = "scan"
    /\ rq["r2"].snap = rq["r1"].snap
    /\ rq["r2"].i = rq["r1"].i
    /\ Match(rq["r2"].h, Elem(rq["r2"].snap, rq["r2"].i))
    /\ Elem(rq["r2"].snap, rq["r2"].i).handler = Nil

\* h is "." + H followed by something: h has the prefix "." + H
DotPrefixed(h, H) == \E k \in 1..(Len(h) + 1) : h = <<DOT>> \o H \o SubSeq(h, k, Len(h))

\* h is something followed by "." + H: h has the suffix "." + H
DotSuffixed(h, H) == \E k \in 0..Len(h) : h = SubSeq(h, 1, k) \o <<DOT>> \o H

\* C22: the prefix test of part_003 and the suffix test of part_002 are not
\* the same test: they differ on a host and a rule exactly when the host is
\* not the rule's Host and has one of the prefix "." + Host and the suffix
\* "." + Host without the other; a host with the prefix and without the
\* suffix is accepted by part_003 and rejected by part_002.  In the server
\* as main runs it the tested string is empty whatever the client's Host, so
\* the rule that serves is one with an empty Host.
C22_PrefixIsNotSuffix ==
    /\ pout.by = "Scan_part003" =>
           \A i \in 1..Len(pout.table) :
               LET r == pout.table[i]
                   h == pin.host
                   pre == DotPrefixed(h, r.Host)
                   suf == DotSuffixed(h, r.Host)
               IN  /\ (h # r.Host /\ pre /\ ~suf) => (Match_part003(h, r) /\ ~Match(h, r))
                   /\ (h # r.Host /\ suf /\ ~pre) => (Match(h, r) /\ ~Match_part003(h, r))
                   /\ (Match_part003(h, r) # Match(h, r)) => (h # r.Host /\ pre # suf)
    /\ (pout.by = "part_003" /\ pout.hit # 0) => pout.table[pout.hit].Host = <<>>

\* C22 witness: part_003's loop serves a port-free host with a rule, and no
\* rule of the same file matches it in part_002
C22_Witness ==
    /\ pout.by = "Scan_part003"
    /\ PortFree(pin.host)
    /\ HostsGiven(pout.table)
    /\ pout.hit # 0
    /\ pout.h # Nil
    /\ DotPrefixed(pin.host, pout.table[pout.hit].Host)
    /\ Matches(parseRules(pin.recs, 1), StripPort(pin.host)) = {}
    /\ handler(parseRules(pin.recs, 1), pin.host) = Nil

\* h ends with H
EndsWith(h, H) == \E k \in 0..Len(h) : h = SubSeq(h, 1, k) \o H

\* the port in decimal
PortText(pt) ==
    CASE pt = 443 -> <<"4", "4", "3">>
      [] pt = 80 -> <<"8", "0">>
      [] pt = 8 -> <<"8">>

\* upstream sent a Location of the form scheme://host/path or /path
HasLocation == pin.odd = <<>> /\ (pin.loc.scheme # <<>> \/ pin.loc.path # <<>>)

\* the host the redirect leads to: its own, or for a path-only redirect the
\* host the request was sent to
LocationHost == IF pin.loc.scheme = <<>> THEN pin.req.host ELSE pin.loc.host

\* "https://" + the rule's Host + ":" + the port
RewrittenTo ==
    HTTPS \o <<COLON, SLASH, SLASH>> \o pin.rule.Host \o <<COLON>> \o PortText(pin.port)

\* C23 as stated: part_005's forwarding handler rewrites the Location of
\* an upstream response whose Location host does not end with the rule's
\* Host to scheme https and host Host + ":" + the HTTPS port; a response
\* whose Location host ends with the rule's Host, or that has no Location
\* that can be read, is passed through with its Location as it was.
C23_RedirectRewritten ==
    pout.by = "ModifyResponse_part005" =>
        LET u == Location(pout.sent)
            v == ParseURL(pout.res.location)
        IN  IF ~u.err /\ ~EndsWith(u.host, pin.rule.Host)
            THEN /\ ~v.err
                 /\ v.scheme = HTTPS
                 /\ v.host = pin.rule.Host \o <<COLON>> \o PortText(pin.port)
            ELSE pout.res.location = pout.sent.location

\* C23, amended: the rewrite to https://Host:port, followed by the path with
\* its dot segments removed (a relative path first merged with the path of
\* the request sent upstream), is made when the Location is not an opaque
\* URL (scheme ":" and something that does not begin with "/"); the
\* Location of an opaque URL, which has no host, becomes "https:" and the
\* opaque part, without a host, unless the rule's Host is empty; a
\* response whose Location host ends with the rule's Host, that has no
\* Location, or whose Location url.Parse rejects, is passed through.
C23_RedirectRewrite ==
    pout.by = "ModifyResponse_part005" =>
        LET u == Location(pout.sent)
        IN  /\ pout.res.req = pout.sent.req
            /\ pin.odd = <<>> =>
                  IF HasLocation /\ ~EndsWith(LocationHost, pin.rule.Host)
                  THEN pout.res.location = RewrittenTo \o pin.loc.path
                  ELSE pout.res.location = pout.sent.location
            /\ (u.err \/ EndsWith(u.host, pin.rule.Host)) =>
                  pout.res.location = pout.sent.location
            /\ (~u.err /\ ~EndsWith(u.host, pin.rule.Host) /\ u.opaque = <<>>) =>
                  pout.res.location =
                      RewrittenTo \o (IF u.path # <<>> /\ u.path[1] # SLASH
                                      THEN <<SLASH>> ELSE <<>>) \o u.path
            /\ (~u.err /\ ~EndsWith(u.host, pin.rule.Host) /\ u.opaque # <<>>) =>
                  pout.res.location = HTTPS \o <<COLON>> \o u.opaque

\* C23 witness: upstream redirects to http://b/p, the rule's Host is "a" and
\* the HTTPS port 443: the Location becomes https://a:443/p
C23_Witness ==
    /\ pout.by = "ModifyResponse_part005"
    /\ pin.rule.Host = <<"a">>
    /\ pin.port = 443
    /\ pout.sent.location = <<"h", "t", "t", "p", ":", "/", "/", "b", "/", "p">>
    /\ pout.res.location =
          <<"h", "t", "t", "p", "s", ":", "/", "/", "a", ":", "4", "4", "3", "/", "p">>

\* the calls of the trace from the i-th on keep the lock in balance: rd and
\* wr say whether the caller holds the read lock and the write lock
RECURSIVE Balanced(_, _, _, _)
Balanced(locks, i, rd, wr) ==
    IF i > Len(locks) THEN FALSE
    ELSE CASE locks[i] = "RLock" -> ~rd /\ ~wr /\ Balanced(locks, i + 1, TRUE, wr)
           [] locks[i] = "RUnlock" -> rd /\ Balanced(locks, i + 1, FALSE, wr)
           [] locks[i] = "Lock" -> ~rd /\ ~wr /\ Balanced(locks, i + 1, rd, TRUE)
           [] locks[i] = "Unlock" -> wr /\ Balanced(locks, i + 1, rd, FALSE)
           [] locks[i] = "return" -> ~rd /\ ~wr /\ i = Len(locks)
           [] OTHER -> FALSE

\* how often the call c occurs in the trace
Count(locks, c) == Cardinality({i \in 1..Len(locks) : locks[i] = c})

\* C24: along every path of ServeHTTP, handler, hostPolicy and loadRules, in
\* part_000, main.go, part_001 and part_002, the calls on s.mu are in
\* balance: a lock is released only while held and taken only while no lock
\* is held, every acquisition has its release, and the function returns
\* holding no lock.
C24_LockBalance ==
    pout.by # "none" =>
        /\ Balanced(pout.locks, 1, FALSE, FALSE)
        /\ Count(pout.locks, "RLock") = Count(pout.locks, "RUnlock")
        /\ Count(pout.locks, "Lock") = Count(pout.locks, "Unlock")

\* C24 witness: part_000's ServeHTTP passes over a matching inert rule and
\* builds the proxy of the next matching rule, giving up the read lock for
\* the write lock and taking it again
C24_Witness ==
    /\ pout.by = "ServeHTTP_part000"
    /\ Len(pout.table) = 2
    /\ Inert(pout.table[1])
    /\ Match(pin.host, pout.table[1])
    /\ pout.locks = <<"RLock">> \o Upgrade \o <<"RUnlock", "return">>

\* the rule files that decode
FinalFiles == {f \in [status : {"ok"}, mtime : 1..(MaxTime + 1), content : Contents] :
                  f.content # Malformed}

\* the current table is the rules decoded from content c
TableIs(c) ==
    /\ cur # 0
    /\ rules = WholeTable(cur)
    /\ AsRecords(heap[cur]) = Files[c]

\* C25 as stated: if from some point on the rule file is no longer modified
\* and its final content decodes, the current table eventually is the
\* rules decoded from it, and stays so, whatever was written before.
C25_ConvergesToFinalFile ==
    \A f \in FinalFiles :
        <>[](file = f) => <>[]TableIs(f.content)

\* C25, amended: the table converges to the final file when the final
\* file's modification time is after the recorded load time (or the table
\* already is what the file decodes to).
C25_ConvergesToNewerFinalFile ==
    \A f \in FinalFiles :
        <>[](file = f /\ (f.mtime > last \/ TableIs(f.content)))
            => <>[](TableIs(f.content) /\ ~(f.mtime > last))

\* C25 witness: the file was replaced by the second rule file with a later
\* modification time, and the table is what it decodes to
C25_Witness ==
    /\ file.content = NewContent
    /\ Newer
    /\ TableIs(NewContent)
    /\ last = file.mtime
    /\ ld.pc = "sleep"

\* loadRules has assigned s.last and s.rules and still holds the write lock
JustPublished == ld.pc = "unlock"

\* C26 as stated: the recorded load time never decreases, and every publish
\* after the first strictly increases it.
C26_LoadTimeIncreases ==
    JustPublished =>
        /\ last >= attempt.last
        /\ attempt.last # 0 => last > attempt.last

\* C26, amended: a publish that replaces a table that is not nil happens
\* only when the file's modification time is strictly after the recorded
\* load time, and strictly increases it; the load time is changed by
\* loadRules' assignment only, to the time os.Stat returned, and it stays or
\* decreases only in a publish made while s.rules is nil.
C26_LoadTimeIncreasesOverTable ==
    /\ [](JustPublished => last = attempt.mtime)
    /\ []((JustPublished /\ attempt.rules.ptr # 0) => last > attempt.last)
    /\ [][last' # last => (ld.pc = "setlast" /\ last' = ld.mtime)]_vars
    /\ [][(ld.pc = "setlast" /\ ld'.pc = "setrules" /\ last' <= last)
              => rules.ptr = 0]_vars

\* C26 witness: the second publish replaces a table with the rules of a file
\* modified later
C26_Witness ==
    /\ JustPublished
    /\ attempt.rules.ptr # 0
    /\ attempt.last # 0
    /\ last > attempt.last
    /\ rules.ptr # attempt.rules.ptr

\* C27: a host name the Authorizer allows is one the Router has a rule for:
\* when hostPolicy returns nil for a port-free name, some rule of the same
\* table passes the match test of handler on that name.  Stated for the
\* hostPolicy of part_005, which allows every name that ends with a rule's
\* Host; part_002's hostPolicy allows a rule's Host and "www." + Host only.
C27_AuthorizedIsRouted_part005 ==
    (pout.by = "hostPolicy_part005" /\ HostsGiven(pout.table)
        /\ PortFree(pin.host) /\ pout.err = NoError) =>
        /\ Matches(pout.table, StripPort(pin.host)) # {}
        /\ Scan(pout.table, StripPort(pin.host), 1) # 0

\* a holder of the read lock, a router inside handler or an authorizer inside
\* hostPolicy, that can take its next step
ReaderCanGoOn ==
    \E q \in mu.readers :
        ENABLED (\/ handler_Loop(q) \/ handler_RUnlock(q)
                 \/ hostPolicy_Loop(q) \/ hostPolicy_RUnlock(q))

\* whoever waits for the lock waits for somebody who can go on: the loader
\* for a reader, a parked reader for the loader or for the reader the loader
\* waits for
NoLockDeadlock ==
    /\ (ld.pc = "drain" /\ mu.readers # {}) => ReaderCanGoOn
    /\ Parked # {} =>
           \/ mu.writer /\ ENABLED Loader_Fair
           \/ ld.pc = "drain" /\ (mu.readers = {} \/ ReaderCanGoOn)

\* C28 in part_002: no state is a deadlock between routers, authorizers and
\* the loader; a loader that has built a table and asks for the write lock
\* gets it and publishes the table; every call of handler and of hostPolicy
\* gets the read lock and returns.
C28_NoDeadlockNoStarvation ==
    /\ []NoLockDeadlock
    /\ (ld.pc = "lock") ~> JustPublished
    /\ \A r \in Reqs : (rq[r].pc = "rlock") ~> (rq[r].pc = "dispatch")
    /\ \A r \in Reqs : (rq[r].pc = "policy_rlock") ~> (rq[r].pc = "idle")

\* C28 in part_002, the case: the loader waits for the write lock while a
\* router holds the read lock and an authorizer that called RLock after the
\* loader called Lock is parked
C28_Witness ==
    /\ ld.pc = "drain"
    /\ proc = "serving"
    /\ \E r \in Reqs : rq[r].pc = "scan" /\ r \in mu.readers
    /\ \E r \in Reqs : rq[r].pc = "policy_rparked"

\* a call of loadRules begins: the loader comes to os.Stat
LoadBegins == ld.pc # "stat" /\ ld'.pc = "stat"

\* s.last and s.rules are not being written, and s.rules is a whole slice
NoWriteInProgress ==
    /\ ~mu.writer
    /\ ld.w = "none"
    /\ rules = IF cur = 0 THEN NilSlice ELSE WholeTable(cur)

\* C29: loadRules runs one call at a time (NewServer starts refreshRules
\* after its own call returned without error, and a call begins only after
\* the one before returned); the skip check reads s.last and s.rules while
\* nothing writes them; s.last and s.rules are written by the loader alone,
\* under the write lock.
C29_SingleWriter ==
    /\ [][(proc = "init" /\ proc' = "serving") => (ld.pc = "ret" /\ ld.err = "")]_vars
    /\ [][LoadBegins => ld.pc \in {"ret", "sleep"}]_vars
    /\ [](ld.pc = "stat" => NoWriteInProgress)
    /\ [][(last' # last \/ rules' # rules) =>
              (mu.writer /\ ld.pc \in {"setlast", "setrules"} /\ rq' = rq)]_vars

\* C29 witness: refreshRules' loadRules has written one word of s.rules
\* over the first load's table while both requests are in flight
C29_Witness ==
    /\ proc = "serving"
    /\ ld.pc = "setrules"
    /\ ld.w # "none"
    /\ cur # 0
    /\ \A r \in Reqs : rq[r].pc # "idle"

\* loadRules of part_000 is inside s.mu.Lock()
LoaderInLock_part000 == ld.pc \in {"lock", "drain"}

\* C28 in part_000: under fair scheduling a loader that asks for the write
\* lock eventually gets it, for any number of concurrent requests
C28_RefresherGetsLock_part000 ==
    LoaderInLock_part000 ~> ~LoaderInLock_part000

====
